---- MODULE Spec2Model ----
(***************************************************************************)
(* Model of 03_events_streams/streams-edge.js: a DataSource (Readable), an *)
(* UppercaseTransform (Transform) and a DataSink (Writable) connected by   *)
(* stream/promises pipeline() and awaited by run().                        *)
(*                                                                         *)
(* The three handlers (_read, _transform, _write) and run() are translated *)
(* from the file.  They are invoked by the host stream engine, so the      *)
(* engine's scheduling (read(), flow(), push(), write(), the nextTick      *)
(* queue, end/finish/error events and the pipeline's finish counting) is   *)
(* modelled as the steps that decide when each handler runs.  JavaScript   *)
(* runs each callback to completion: the call stack is the variable        *)
(* `stack`, the process.nextTick queue is `ticks`, promise jobs are        *)
(* `micro`, and pending timers are `timers`.                               *)
(***************************************************************************)
EXTENDS Integers, Sequences, FiniteSets, TLC

\* ---------------------------------------------------------------- bounds
MaxLen == 3          \* longest backing list of the DataSource explored
MaxClock == 1        \* largest value the host clock (Date.now) reaches

\* ------------------------------------------------------ program constants
HighWaterMark == 16  \* objectMode streams buffer up to 16 objects

Malformed == "null"  \* a payload that is not a string (toUpperCase throws)
Undefined == "undefined"  \* what an array read past its end yields
Payloads == {"a", "B", Malformed}

NoError == "none"
TypeError == "TypeError"
PrematureClose == "ERR_STREAM_PREMATURE_CLOSE"

SOURCE == "source"
TRANSFORM == "transform"
SINK == "sink"

VARIABLES
  data,      \* DataSource.data, the backing list
  index,     \* DataSource.index, the cursor
  rstate,    \* readable side of source and transform (engine state)
  wstate,    \* writable side of transform and sink (engine state)
  stack,     \* frames of the running callback, innermost first
  ticks,     \* process.nextTick queue (FIFO)
  micro,     \* promise jobs (the continuation of run() after its await)
  timers,    \* _read invocations suspended in `await setTimeout(200)`
  ret,       \* TRUE iff the last stream.read() returned a record
  pl,        \* pipeline(): finishCount, error, whether the callback is due/called
  state,     \* pipeline state: idle, running, completed, failed
  out,       \* records displayed by the sink ('Final result'), in order
  msgs,      \* final messages printed by run(), with the error they carry
  now,       \* host clock
  log,       \* history of handler events, in order
  \* runChildProcessExamples (child_process demo) and its worker script
  ppc,       \* where runChildProcessExamples stands (the await it is at)
  procs,     \* state of each child process: exec, execFile, ping, worker
  ipc,       \* the fork's IPC channel: messages in flight, each way
  chunks,    \* ping's output: chunks waiting in each pipe, chunks written
  console,   \* lines printed by the parent and the worker, in order
  hist,      \* history of process and IPC events of the demo, in order
  \* the event-loop demo (file.js, lines 154-242)
  loop,      \* Node's event loop: phase, queues, timers, immediates, the read
  rows,      \* lines printed by the demo (formatOutput's messages), in order
  \* runFileSystemExamples (file.js, lines 1-152)
  fsrun,     \* where the function stands, the directory, the watcher, its timer
  fsout,     \* what the function has printed and called, in order
  \* the multi-bar example of runExamples (console-progress.js, lines 41-67)
  bars       \* the two tasks' loop counters and the two bars' values

\* the stream demo's variables and the child-process demo's variables
svars == <<data, index, rstate, wstate, stack, ticks, micro, timers, ret, pl,
           state, out, msgs, now, log>>
cvars == <<ppc, procs, ipc, chunks, console, hist>>
xvars == <<loop, rows, fsrun, fsout, bars>>

vars == <<data, index, rstate, wstate, stack, ticks, micro, timers, ret, pl,
          state, out, msgs, now, log, ppc, procs, ipc, chunks, console, hist,
          loop, rows, fsrun, fsout, bars>>

\* the child processes of the demo
EXEC == "exec"
EXECFILE == "execFile"
PING == "ping"
WORKER == "worker"

\* a child process: st is none, running, exited (the parent has not been
\* told yet) or reaped; at is the worker script's position
NoProcess == [st |-> "none", code |-> "none", stderr |-> FALSE, at |-> "none",
              signalled |-> FALSE]

\* the other demos before their scripts start
InitLoop ==
  [phase |-> "start", nextTicks |-> <<>>, microtasks |-> <<>>, timers |-> <<>>,
   immediates |-> <<>>, read |-> [st |-> "none", left |-> 0]]

InitFs ==
  [pc |-> "start", i |-> 0, w |-> 0, dir |-> "absent", timer |-> "none",
   aborted |-> FALSE, events |-> 0]

InitBars ==
  [pc |-> "start", i1 |-> 0, i2 |-> 0, b1 |-> 0, b2 |-> 0,
   task1 |-> "none", task2 |-> "none"]

InitDemos ==
  /\ loop = InitLoop
  /\ rows = <<>>
  /\ fsrun = InitFs
  /\ fsout = <<>>
  /\ bars = InitBars

\* nothing has been started: runChildProcessExamples() is yet to be called
InitChildProcesses ==
  /\ ppc = "start"
  /\ procs = [c \in {EXEC, EXECFILE, PING, WORKER} |-> NoProcess]
  /\ ipc = [toWorker |-> <<>>, toParent |-> <<>>]
  /\ chunks = [stdout |-> 0, stderr |-> 0, written |-> 0]
  /\ console = <<>>
  /\ hist = <<>>

\* ------------------------------------------------------------ pure helpers
RECURSIVE SeqsUpTo(_, _)
SeqsUpTo(S, n) ==
  IF n = 0 THEN {<<>>}
  ELSE LET shorter == SeqsUpTo(S, n - 1)
       IN shorter \cup {Append(q, x) : q \in {r \in shorter : Len(r) = n - 1}, x \in S}

IsString(p) == p \notin {Malformed, Undefined}

\* variant: the mapping leaves the payload as it is
ToUpperCase_identity(p) == p

\* String.prototype.toUpperCase on the payloads of the model
ToUpperCase(p) ==
  CASE p = "a" -> "A"
    [] p = "B" -> "B"
    [] OTHER -> p

\* variant: the end test is `>` instead of `>=`
AtEnd_gt(i, d) == i > Len(d)

\* this.index >= this.data.length
AtEnd(i, d) == i >= Len(d)

\* variant: the cursor skips a position
NextIndex_skip(i) == i + 2

\* this.index++
NextIndex(i) == i + 1

\* { data: this.data[this.index], timestamp: Date.now() }; pos is a ghost
\* field naming the source position the record was made from
MakeChunk(d, i, t) ==
  [pos |-> i, data |-> IF i + 1 \in DOMAIN d THEN d[i + 1] ELSE Undefined,
   timestamp |-> t]

Ev(e, p) == [e |-> e, pos |-> p]

InitReadable ==
  [buffer |-> <<>>, reading |-> FALSE, sync |-> TRUE, flowing |-> FALSE,
   ended |-> FALSE, endEmitted |-> FALSE, needReadable |-> FALSE,
   emittedReadable |-> FALSE, readingMore |-> FALSE, destroyed |-> FALSE,
   errored |-> FALSE, errorEmitted |-> FALSE, closeEmitted |-> FALSE]

InitWritable ==
  [length |-> 0, writing |-> FALSE, sync |-> FALSE, pendingcb |-> 0,
   afterWriteTick |-> 0, ending |-> FALSE, finalCalled |-> FALSE,
   prefinished |-> FALSE, finished |-> FALSE,
   destroyed |-> FALSE, errored |-> FALSE, errorEmitted |-> FALSE,
   closeEmitted |-> FALSE]

Init ==
  /\ data \in SeqsUpTo(Payloads, MaxLen)
  /\ index = 0
  /\ rstate = [s \in {SOURCE, TRANSFORM} |-> InitReadable]
  /\ wstate = [s \in {TRANSFORM, SINK} |-> InitWritable]
  /\ stack = <<>>
  /\ ticks = <<>>
  /\ micro = <<>>
  /\ timers = 0
  /\ ret = FALSE
  /\ pl = [finishCount |-> 0, error |-> NoError, called |-> 0, eos |-> {},
           ended |-> {}, done |-> {}, destroysRun |-> FALSE]
  /\ state = "idle"
  /\ out = <<>>
  /\ msgs = <<>>
  /\ now = 0
  /\ log = <<>>
  /\ InitChildProcesses
  /\ InitDemos

\* --------------------------------------------------------- frame dispatch
Busy == stack # <<>> \/ ticks # <<>>
Cur == IF stack # <<>> THEN Head(stack) ELSE Head(ticks)
RestStack == IF stack # <<>> THEN Tail(stack) ELSE <<>>
RestTicks == IF stack # <<>> THEN ticks ELSE Tail(ticks)
At(op) == Busy /\ Cur.op = op

Frame(op, s) == [op |-> op, s |-> s]

\* the callback continues with `frames`, and `newticks` are queued
Continue(frames, newticks) ==
  /\ stack' = frames \o RestStack
  /\ ticks' = RestTicks \o newticks

\* run(), lines 89-96: the streams are made and piped; on('data') of each
\* pipe puts the stream in flowing mode and schedules resume_ on nextTick
run ==
  /\ state = "idle"
  /\ state' = "running"
  /\ rstate' = [s \in {SOURCE, TRANSFORM} |-> [InitReadable EXCEPT !.flowing = TRUE]]
  /\ ticks' = <<Frame("resume_", SOURCE), Frame("resume_", TRANSFORM)>>
  /\ pl' = [pl EXCEPT !.finishCount = 4]
  /\ UNCHANGED cvars
  /\ UNCHANGED xvars
  /\ UNCHANGED <<data, index, wstate, stack, micro, timers, ret, out, msgs, now, log>>

\* ------------------------------------------------ readable-side helpers
\* each returns the new readable state and the nextTick callbacks it queues
RT(r, t) == [r |-> r, ticks |-> t]

\* emitReadable(stream)
EmitReadable(r, s) ==
  RT([r EXCEPT !.needReadable = FALSE, !.emittedReadable = TRUE],
     IF r.emittedReadable THEN <<>> ELSE <<Frame("emitReadable_", s)>>)

\* endReadable(stream)
EndReadable(r, s) ==
  IF r.endEmitted THEN RT(r, <<>>)
  ELSE RT([r EXCEPT !.ended = TRUE], <<Frame("endReadableNT", s)>>)

\* maybeReadMore(stream, state)
MaybeReadMore(r, s) ==
  IF r.readingMore THEN RT(r, <<>>)
  ELSE RT([r EXCEPT !.readingMore = TRUE],
          <<[op |-> "maybeReadMore_", s |-> s, first |-> TRUE, len |-> 0]>>)

\* this.push(chunk) from inside a handler: the record is appended to the
\* buffer (the stream is inside its first read() or inside _read, so
\* state.sync holds and 'data' is not emitted from push)
Push(r, s, chunk) ==
  LET r1 == [r EXCEPT !.reading = FALSE, !.buffer = Append(r.buffer, chunk)]
      e == IF r1.needReadable THEN EmitReadable(r1, s) ELSE RT(r1, <<>>)
      m == MaybeReadMore(e.r, s)
  IN RT(m.r, e.ticks \o m.ticks)

\* variant: what is pushed at the end does not end the stream
PushEof_noend(r, s) == RT([r EXCEPT !.reading = FALSE], <<>>)

\* this.push(null) from inside _read (state.sync holds): onEofChunk
PushEof(r, s) ==
  LET r1 == [r EXCEPT !.reading = FALSE]
  IN IF r1.ended THEN RT(r1, <<>>)
     ELSE EmitReadable([r1 EXCEPT !.ended = TRUE], s)

\* howMuchToRead(n, state) in objectMode, for n = 0 (zero) or n = undefined
HowMuchToRead(r, zero) ==
  IF zero \/ (Len(r.buffer) = 0 /\ r.ended) THEN 0 ELSE 1

\* ------------------------------------------------ writable-side helpers
WT(w, t) == [w |-> w, ticks |-> t]

\* onwrite(stream, er), called synchronously from the handler (state.sync)
Onwrite(w, d, err) ==
  LET w1 == [w EXCEPT !.writing = FALSE, !.length = w.length - 1]
  IN IF err # NoError
     THEN WT([w1 EXCEPT !.errored = TRUE],
             <<[op |-> "onwriteError", s |-> d, err |-> err]>>)
     ELSE IF w1.afterWriteTick > 0
          THEN WT([w1 EXCEPT !.afterWriteTick = w1.afterWriteTick + 1], <<>>)
          ELSE WT([w1 EXCEPT !.afterWriteTick = 1], <<Frame("afterWriteTick", d)>>)

Upstream(d) == IF d = TRANSFORM THEN SOURCE ELSE TRANSFORM
Downstream(s) == IF s = SOURCE THEN TRANSFORM ELSE SINK

\* ------------------------------------------------------- engine: reading
\* resume_(stream, state)
resume_ ==
  /\ At("resume_")
  /\ LET s == Cur.s
     IN Continue((IF rstate[s].reading THEN <<>>
                  ELSE <<[op |-> "read", s |-> s, zero |-> TRUE]>>)
                 \o <<[op |-> "flow", s |-> s, first |-> TRUE], Frame("resumeEnd", s)>>,
                 <<>>)
  /\ UNCHANGED cvars
  /\ UNCHANGED xvars
  /\ UNCHANGED <<data, index, rstate, wstate, micro, timers, ret, pl, state, out, msgs, now, log>>

\* the tail of resume_: if (state.flowing && !state.reading) stream.read(0)
resumeEnd ==
  /\ At("resumeEnd")
  /\ LET s == Cur.s
     IN Continue(IF rstate[s].flowing /\ ~rstate[s].reading
                 THEN <<[op |-> "read", s |-> s, zero |-> TRUE]>> ELSE <<>>, <<>>)
  /\ UNCHANGED cvars
  /\ UNCHANGED xvars
  /\ UNCHANGED <<data, index, rstate, wstate, micro, timers, ret, pl, state, out, msgs, now, log>>

\* flow(stream): while (state.flowing && stream.read() !== null);
flow ==
  /\ At("flow")
  /\ LET s == Cur.s
     IN Continue(IF rstate[s].flowing /\ (Cur.first \/ ret)
                 THEN <<[op |-> "read", s |-> s, zero |-> FALSE],
                        [op |-> "flow", s |-> s, first |-> FALSE]>>
                 ELSE <<>>, <<>>)
  /\ UNCHANGED cvars
  /\ UNCHANGED xvars
  /\ UNCHANGED <<data, index, rstate, wstate, micro, timers, ret, pl, state, out, msgs, now, log>>

\* Readable.prototype.read(n) up to the call of _read
read ==
  /\ At("read")
  /\ LET s == Cur.s
         zero == Cur.zero
         r0 == rstate[s]
         r == IF zero THEN r0 ELSE [r0 EXCEPT !.emittedReadable = FALSE]
         len == Len(r.buffer)
         n == HowMuchToRead(r, zero)
         doRead == (r.needReadable \/ len = 0 \/ len - n < HighWaterMark)
                   /\ ~(r.ended \/ r.reading \/ r.destroyed \/ r.errored)
     IN IF zero /\ r.needReadable /\ (len >= HighWaterMark \/ r.ended)
        THEN LET x == IF len = 0 /\ r.ended THEN EndReadable(r, s) ELSE EmitReadable(r, s)
             IN /\ rstate' = [rstate EXCEPT ![s] = x.r]
                /\ ret' = FALSE
                /\ Continue(<<>>, x.ticks)
        ELSE IF n = 0 /\ r.ended
        THEN LET x == IF len = 0 THEN EndReadable(r, s) ELSE RT(r, <<>>)
             IN /\ rstate' = [rstate EXCEPT ![s] = x.r]
                /\ ret' = FALSE
                /\ Continue(<<>>, x.ticks)
        ELSE IF doRead
        THEN /\ rstate' = [rstate EXCEPT ![s] =
                  [r EXCEPT !.reading = TRUE, !.sync = TRUE,
                            !.needReadable = (r.needReadable \/ len = 0)]]
             /\ ret' = ret
             /\ Continue(<<Frame("_read", s),
                           [op |-> "readPost", s |-> s, zero |-> zero, n |-> n, didRead |-> TRUE]>>,
                         <<>>)
        ELSE /\ rstate' = [rstate EXCEPT ![s] = r]
             /\ ret' = ret
             /\ Continue(<<[op |-> "readPost", s |-> s, zero |-> zero, n |-> n, didRead |-> FALSE]>>,
                         <<>>)
  /\ UNCHANGED cvars
  /\ UNCHANGED xvars
  /\ UNCHANGED <<data, index, wstate, micro, timers, pl, state, out, msgs, now, log>>

\* Readable.prototype.read(n) after _read returned: take a record from the
\* buffer and emit 'data' (the pipe's ondata, which writes it downstream)
readPost ==
  /\ At("readPost")
  /\ LET s == Cur.s
         zero == Cur.zero
         r0 == rstate[s]
         r1 == IF Cur.didRead THEN [r0 EXCEPT !.sync = FALSE] ELSE r0
         n == IF Cur.didRead /\ ~r1.reading THEN HowMuchToRead(r1, zero) ELSE Cur.n
         got == n > 0 /\ Len(r1.buffer) > 0
         r2 == IF got THEN [r1 EXCEPT !.buffer = Tail(r1.buffer)]
               ELSE [r1 EXCEPT !.needReadable = (Len(r1.buffer) <= HighWaterMark)]
         n2 == IF got THEN n ELSE 0
         r3 == IF Len(r2.buffer) = 0 /\ ~r2.ended
               THEN [r2 EXCEPT !.needReadable = TRUE] ELSE r2
         x == IF Len(r3.buffer) = 0 /\ r3.ended /\ ~(zero /\ n2 = 0)
              THEN EndReadable(r3, s) ELSE RT(r3, <<>>)
         emit == got /\ ~r3.errorEmitted /\ ~r3.closeEmitted
     IN /\ rstate' = [rstate EXCEPT ![s] = x.r]
        /\ ret' = got
        /\ Continue(IF emit
                    THEN <<[op |-> "write", s |-> Downstream(s), chunk |-> Head(r1.buffer)]>>
                    ELSE <<>>, x.ticks)
  /\ UNCHANGED cvars
  /\ UNCHANGED xvars
  /\ UNCHANGED <<data, index, wstate, micro, timers, pl, state, out, msgs, now, log>>

\* DataSource._read, lines 20-34, up to the await
DataSource_read ==
  /\ At("_read") /\ Cur.s = SOURCE
  /\ IF AtEnd(index, data)
     THEN LET x == PushEof(rstate[SOURCE], SOURCE)
          IN /\ rstate' = [rstate EXCEPT ![SOURCE] = x.r]
             /\ Continue(<<>>, x.ticks)
             /\ log' = log \o <<Ev("read", index), Ev("eos", index)>>
             /\ UNCHANGED <<index, timers>>
     ELSE LET chunk == MakeChunk(data, index, now)
              x == Push(rstate[SOURCE], SOURCE, chunk)
          IN /\ rstate' = [rstate EXCEPT ![SOURCE] = x.r]
             /\ Continue(<<>>, x.ticks)
             /\ index' = NextIndex(index)
             /\ timers' = timers + 1
             /\ log' = log \o <<Ev("read", index), Ev("push", chunk.pos)>>
  /\ UNCHANGED cvars
  /\ UNCHANGED xvars
  /\ UNCHANGED <<data, wstate, micro, ret, pl, state, out, msgs, now>>

\* Transform.prototype._read: no write callback is held back while the
\* readable side is below the high-water mark, so there is nothing to release
Transform_read ==
  /\ At("_read") /\ Cur.s = TRANSFORM
  /\ Continue(<<>>, <<>>)
  /\ UNCHANGED cvars
  /\ UNCHANGED xvars
  /\ UNCHANGED <<data, index, rstate, wstate, micro, timers, ret, pl, state, out, msgs, now, log>>

\* ------------------------------------------------------- engine: writing
\* the pipe's ondata: dest.write(chunk), up to the call of the handler
write ==
  /\ At("write")
  /\ LET d == Cur.s
         w == wstate[d]
     IN /\ wstate' = [wstate EXCEPT ![d] =
              [w EXCEPT !.pendingcb = w.pendingcb + 1, !.length = w.length + 1,
                        !.writing = TRUE, !.sync = TRUE]]
        /\ Continue(<<[op |-> IF d = TRANSFORM THEN "_transform" ELSE "_write",
                       s |-> d, chunk |-> Cur.chunk],
                      [op |-> "writeEnd", s |-> d, ok |-> w.length + 1 < HighWaterMark]>>,
                    <<>>)
  /\ UNCHANGED cvars
  /\ UNCHANGED xvars
  /\ UNCHANGED <<data, index, rstate, micro, timers, ret, pl, state, out, msgs, now, log>>

\* dest.write returns; the pipe's ondata pauses the reader when it is false
writeEnd ==
  /\ At("writeEnd")
  /\ LET d == Cur.s
         w == wstate[d]
         result == Cur.ok /\ ~w.errored /\ ~w.destroyed
     IN /\ wstate' = [wstate EXCEPT ![d] = [w EXCEPT !.sync = FALSE]]
        /\ rstate' = IF result THEN rstate
                     ELSE [rstate EXCEPT ![Upstream(d)] = [@ EXCEPT !.flowing = FALSE]]
  /\ Continue(<<>>, <<>>)
  /\ UNCHANGED cvars
  /\ UNCHANGED xvars
  /\ UNCHANGED <<data, index, micro, timers, ret, pl, state, out, msgs, now, log>>

\* variant: the record is mapped but never pushed on
UppercaseTransform_transform_nopush ==
  /\ At("_transform")
  /\ LET chunk == Cur.chunk
         y == Onwrite(wstate[TRANSFORM], TRANSFORM,
                      IF IsString(chunk.data) THEN NoError ELSE TypeError)
     IN /\ rstate' = IF IsString(chunk.data) THEN rstate
                     ELSE [rstate EXCEPT ![TRANSFORM] = [@ EXCEPT !.errored = TRUE]]
        /\ wstate' = [wstate EXCEPT ![TRANSFORM] = y.w]
        /\ Continue(<<>>, y.ticks)
        /\ log' = log \o <<Ev("transform", chunk.pos),
                            Ev(IF IsString(chunk.data) THEN "dropped" ELSE "terr", chunk.pos)>>
  /\ UNCHANGED cvars
  /\ UNCHANGED xvars
  /\ UNCHANGED <<data, index, micro, timers, ret, pl, state, out, msgs, now>>

\* variant: the catch block calls callback() without the error
UppercaseTransform_transform_swallow ==
  /\ At("_transform")
  /\ LET chunk == Cur.chunk
         y == Onwrite(wstate[TRANSFORM], TRANSFORM, NoError)
     IN IF IsString(chunk.data)
        THEN LET mapped == [pos |-> chunk.pos, data |-> ToUpperCase(chunk.data),
                            timestamp |-> chunk.timestamp, transformedAt |-> now]
                 x == Push(rstate[TRANSFORM], TRANSFORM, mapped)
             IN /\ rstate' = [rstate EXCEPT ![TRANSFORM] = x.r]
                /\ wstate' = [wstate EXCEPT ![TRANSFORM] = y.w]
                /\ Continue(<<>>, x.ticks \o y.ticks)
                /\ log' = log \o <<Ev("transform", chunk.pos), Ev("forward", chunk.pos)>>
        ELSE /\ rstate' = rstate
             /\ wstate' = [wstate EXCEPT ![TRANSFORM] = y.w]
             /\ Continue(<<>>, y.ticks)
             /\ log' = log \o <<Ev("transform", chunk.pos), Ev("terr", chunk.pos)>>
  /\ UNCHANGED cvars
  /\ UNCHANGED xvars
  /\ UNCHANGED <<data, index, micro, timers, ret, pl, state, out, msgs, now>>

\* variant: the mapping depends on the record's timestamps
UppercaseTransform_transform_timed ==
  /\ At("_transform")
  /\ LET chunk == Cur.chunk
     IN IF IsString(chunk.data)
        THEN LET mapped == [pos |-> chunk.pos,
                            data |-> IF now = chunk.timestamp
                                     THEN ToUpperCase(chunk.data) ELSE chunk.data,
                            timestamp |-> chunk.timestamp, transformedAt |-> now]
                 x == Push(rstate[TRANSFORM], TRANSFORM, mapped)
                 y == Onwrite(wstate[TRANSFORM], TRANSFORM, NoError)
             IN /\ rstate' = [rstate EXCEPT ![TRANSFORM] = x.r]
                /\ wstate' = [wstate EXCEPT ![TRANSFORM] = y.w]
                /\ Continue(<<>>, x.ticks \o y.ticks)
                /\ log' = log \o <<Ev("transform", chunk.pos), Ev("forward", chunk.pos)>>
        ELSE LET y == Onwrite(wstate[TRANSFORM], TRANSFORM, TypeError)
             IN /\ rstate' = [rstate EXCEPT ![TRANSFORM] = [@ EXCEPT !.errored = TRUE]]
                /\ wstate' = [wstate EXCEPT ![TRANSFORM] = y.w]
                /\ Continue(<<>>, y.ticks)
                /\ log' = log \o <<Ev("transform", chunk.pos), Ev("terr", chunk.pos)>>
  /\ UNCHANGED cvars
  /\ UNCHANGED xvars
  /\ UNCHANGED <<data, index, micro, timers, ret, pl, state, out, msgs, now>>

\* variant: the transform pushes the record on and writes its fields afterwards
UppercaseTransform_transform_latewrite ==
  /\ At("_transform")
  /\ LET chunk == Cur.chunk
     IN IF IsString(chunk.data)
        THEN LET mapped == [pos |-> chunk.pos, data |-> ToUpperCase(chunk.data),
                            timestamp |-> chunk.timestamp, transformedAt |-> now]
                 x == Push(rstate[TRANSFORM], TRANSFORM, mapped)
                 y == Onwrite(wstate[TRANSFORM], TRANSFORM, NoError)
             IN /\ rstate' = [rstate EXCEPT ![TRANSFORM] = x.r]
                /\ wstate' = [wstate EXCEPT ![TRANSFORM] = y.w]
                /\ Continue(<<>>, x.ticks \o y.ticks)
                /\ log' = log \o <<Ev("forward", chunk.pos), Ev("transform", chunk.pos)>>
        ELSE LET y == Onwrite(wstate[TRANSFORM], TRANSFORM, TypeError)
             IN /\ rstate' = [rstate EXCEPT ![TRANSFORM] = [@ EXCEPT !.errored = TRUE]]
                /\ wstate' = [wstate EXCEPT ![TRANSFORM] = y.w]
                /\ Continue(<<>>, y.ticks)
                /\ log' = log \o <<Ev("transform", chunk.pos), Ev("terr", chunk.pos)>>
  /\ UNCHANGED cvars
  /\ UNCHANGED xvars
  /\ UNCHANGED <<data, index, micro, timers, ret, pl, state, out, msgs, now>>

\* UppercaseTransform._transform, lines 49-66
UppercaseTransform_transform ==
  /\ At("_transform")
  /\ LET chunk == Cur.chunk
     IN IF IsString(chunk.data)
        THEN LET mapped == [pos |-> chunk.pos, data |-> ToUpperCase(chunk.data),
                            timestamp |-> chunk.timestamp, transformedAt |-> now]
                 x == Push(rstate[TRANSFORM], TRANSFORM, mapped)
                 y == Onwrite(wstate[TRANSFORM], TRANSFORM, NoError)
             IN /\ rstate' = [rstate EXCEPT ![TRANSFORM] = x.r]
                /\ wstate' = [wstate EXCEPT ![TRANSFORM] = y.w]
                /\ Continue(<<>>, x.ticks \o y.ticks)
                /\ log' = log \o <<Ev("transform", chunk.pos), Ev("forward", chunk.pos)>>
        ELSE LET y == Onwrite(wstate[TRANSFORM], TRANSFORM, TypeError)
             IN /\ rstate' = [rstate EXCEPT ![TRANSFORM] = [@ EXCEPT !.errored = TRUE]]
                /\ wstate' = [wstate EXCEPT ![TRANSFORM] = y.w]
                /\ Continue(<<>>, y.ticks)
                /\ log' = log \o <<Ev("transform", chunk.pos), Ev("terr", chunk.pos)>>
  /\ UNCHANGED cvars
  /\ UNCHANGED xvars
  /\ UNCHANGED <<data, index, micro, timers, ret, pl, state, out, msgs, now>>

\* variant: the sink displays the record and acknowledges it twice
DataSink_write_twice ==
  /\ At("_write")
  /\ LET chunk == Cur.chunk
         y == Onwrite(wstate[SINK], SINK, NoError)
     IN /\ wstate' = [wstate EXCEPT ![SINK] = y.w]
        /\ Continue(<<>>, y.ticks)
        /\ out' = out \o <<chunk, chunk>>
        /\ log' = log \o <<Ev("write", chunk.pos), Ev("ack", chunk.pos),
                            Ev("write", chunk.pos), Ev("ack", chunk.pos)>>
  /\ UNCHANGED cvars
  /\ UNCHANGED xvars
  /\ UNCHANGED <<data, index, rstate, micro, timers, ret, pl, state, msgs, now>>

\* variant: the sink displays the record and never calls callback()
DataSink_write_noack ==
  /\ At("_write")
  /\ Continue(<<>>, <<>>)
  /\ out' = Append(out, Cur.chunk)
  /\ log' = Append(log, Ev("write", Cur.chunk.pos))
  /\ UNCHANGED cvars
  /\ UNCHANGED xvars
  /\ UNCHANGED <<data, index, rstate, wstate, micro, timers, ret, pl, state, msgs, now>>

\* DataSink._write, lines 78-82
DataSink_write ==
  /\ At("_write")
  /\ LET chunk == Cur.chunk
         y == Onwrite(wstate[SINK], SINK, NoError)
     IN /\ wstate' = [wstate EXCEPT ![SINK] = y.w]
        /\ Continue(<<>>, y.ticks)
        /\ out' = Append(out, chunk)
        /\ log' = log \o <<Ev("write", chunk.pos), Ev("ack", chunk.pos)>>
  /\ UNCHANGED cvars
  /\ UNCHANGED xvars
  /\ UNCHANGED <<data, index, rstate, micro, timers, ret, pl, state, msgs, now>>

\* ------------------------------------------- engine: nextTick callbacks
\* emitReadable_(stream)
emitReadable_ ==
  /\ At("emitReadable_")
  /\ LET s == Cur.s
         r == rstate[s]
         r1 == IF ~r.destroyed /\ ~r.errored /\ (Len(r.buffer) > 0 \/ r.ended)
               THEN [r EXCEPT !.emittedReadable = FALSE] ELSE r
     IN /\ rstate' = [rstate EXCEPT ![s] =
              [r1 EXCEPT !.needReadable =
                 ~r1.flowing /\ ~r1.ended /\ Len(r1.buffer) <= HighWaterMark]]
        /\ Continue(<<[op |-> "flow", s |-> s, first |-> TRUE]>>, <<>>)
  /\ UNCHANGED cvars
  /\ UNCHANGED xvars
  /\ UNCHANGED <<data, index, wstate, micro, timers, ret, pl, state, out, msgs, now, log>>

\* maybeReadMore_(stream, state): read(0) while the buffer is below the
\* high-water mark and the last read(0) added something
maybeReadMore_ ==
  /\ At("maybeReadMore_")
  /\ LET s == Cur.s
         r == rstate[s]
         len == Len(r.buffer)
         again == /\ Cur.first \/ len # Cur.len
                  /\ ~r.reading /\ ~r.ended
                  /\ (len < HighWaterMark \/ (r.flowing /\ len = 0))
     IN IF again
        THEN /\ rstate' = rstate
             /\ Continue(<<[op |-> "read", s |-> s, zero |-> TRUE],
                           [op |-> "maybeReadMore_", s |-> s, first |-> FALSE, len |-> len]>>,
                         <<>>)
        ELSE /\ rstate' = [rstate EXCEPT ![s] = [r EXCEPT !.readingMore = FALSE]]
             /\ Continue(<<>>, <<>>)
  /\ UNCHANGED cvars
  /\ UNCHANGED xvars
  /\ UNCHANGED <<data, index, wstate, micro, timers, ret, pl, state, out, msgs, now, log>>

\* afterWriteTick -> afterWrite: the write callbacks of the pipe are counted
\* off, then finishMaybe(stream, state)
afterWriteTick ==
  /\ At("afterWriteTick")
  /\ LET d == Cur.s
         w == wstate[d]
     IN wstate' = [wstate EXCEPT ![d] =
           [w EXCEPT !.pendingcb = w.pendingcb - w.afterWriteTick, !.afterWriteTick = 0]]
  /\ Continue(<<[op |-> "finishMaybe", s |-> Cur.s, sync |-> FALSE]>>, <<>>)
  /\ UNCHANGED cvars
  /\ UNCHANGED xvars
  /\ UNCHANGED <<data, index, rstate, micro, timers, ret, pl, state, out, msgs, now, log>>

\* needFinish(state)
NeedFinish(w) ==
  /\ w.ending /\ ~w.destroyed /\ w.length = 0 /\ ~w.errored
  /\ ~w.finished /\ ~w.writing /\ ~w.errorEmitted /\ ~w.closeEmitted

HasReadable(s) == s \in {SOURCE, TRANSFORM}
HasWritable(s) == s \in {TRANSFORM, SINK}

\* the destroyer's eos callback ran without error: 'end' seen on the readable
\* side and 'finish' on the writable side
StreamFinished(s, rs, ws) ==
  /\ HasReadable(s) => rs[s].endEmitted
  /\ HasWritable(s) => ws[s].finished

\* endReadableNT(state, stream): 'end' is emitted; the listeners are the
\* pipe's unpipe, the pipeline's endFn (dst.end()) and the eos callback
endReadableNT ==
  /\ At("endReadableNT")
  /\ LET s == Cur.s
         r == rstate[s]
     IN IF ~r.errored /\ ~r.closeEmitted /\ ~r.endEmitted /\ Len(r.buffer) = 0
        THEN LET rs == [rstate EXCEPT ![s] = [r EXCEPT !.endEmitted = TRUE, !.flowing = FALSE]]
             IN /\ rstate' = rs
                /\ pl' = [pl EXCEPT !.ended = @ \cup {Downstream(s)},
                                    !.done = IF StreamFinished(s, rs, wstate)
                                             THEN @ \cup {s} ELSE @]
                /\ Continue(<<Frame("end", Downstream(s)),
                              [op |-> "eos", s |-> s, side |-> "r", err |-> NoError],
                              Frame("autoDestroy", s)>>, <<>>)
        ELSE /\ UNCHANGED <<rstate, pl>>
             /\ Continue(<<>>, <<>>)
  /\ UNCHANGED cvars
  /\ UNCHANGED xvars
  /\ UNCHANGED <<data, index, wstate, micro, timers, ret, state, out, msgs, now, log>>

\* Writable.prototype.end(), called by the pipeline's endFn
end ==
  /\ At("end")
  /\ LET d == Cur.s
         w == wstate[d]
     IN IF w.errored \/ w.ending
        THEN /\ wstate' = wstate
             /\ Continue(<<>>, <<>>)
        ELSE /\ wstate' = [wstate EXCEPT ![d] = [w EXCEPT !.ending = TRUE]]
             /\ Continue(<<[op |-> "finishMaybe", s |-> d, sync |-> TRUE]>>, <<>>)
  /\ UNCHANGED cvars
  /\ UNCHANGED xvars
  /\ UNCHANGED <<data, index, rstate, micro, timers, ret, pl, state, out, msgs, now, log>>

\* finishMaybe(stream, state, sync) up to prefinish: a Transform has _final,
\* which is called once (callFinal); a plain Writable is prefinished at once
finishMaybe ==
  /\ At("finishMaybe")
  /\ LET d == Cur.s
         w == wstate[d]
         tail == [op |-> "finishMaybeTail", s |-> d, sync |-> Cur.sync]
     IN IF ~NeedFinish(w)
        THEN /\ wstate' = wstate
             /\ Continue(<<>>, <<>>)
        ELSE IF w.prefinished \/ w.finalCalled
        THEN /\ wstate' = wstate
             /\ Continue(<<tail>>, <<>>)
        ELSE IF d = TRANSFORM
        THEN /\ wstate' = [wstate EXCEPT ![d] =
                   [w EXCEPT !.finalCalled = TRUE, !.sync = TRUE,
                             !.pendingcb = w.pendingcb + 1]]
             /\ Continue(<<Frame("final", d), Frame("onFinish", d), tail>>, <<>>)
        ELSE /\ wstate' = [wstate EXCEPT ![d] = [w EXCEPT !.prefinished = TRUE]]
             /\ Continue(<<tail>>, <<>>)
  /\ UNCHANGED cvars
  /\ UNCHANGED xvars
  /\ UNCHANGED <<data, index, rstate, micro, timers, ret, pl, state, out, msgs, now, log>>

\* Transform's final(cb): this.push(null), then cb()
final ==
  /\ At("final")
  /\ LET s == Cur.s
         r == [rstate[s] EXCEPT !.reading = FALSE]
     IN IF r.ended
        THEN /\ rstate' = [rstate EXCEPT ![s] = r]
             /\ Continue(<<>>, <<>>)
        ELSE IF r.sync
        THEN LET x == EmitReadable([r EXCEPT !.ended = TRUE], s)
             IN /\ rstate' = [rstate EXCEPT ![s] = x.r]
                /\ Continue(<<>>, x.ticks)
        ELSE /\ rstate' = [rstate EXCEPT ![s] =
                   [r EXCEPT !.ended = TRUE, !.needReadable = FALSE,
                             !.emittedReadable = TRUE]]
             /\ Continue(<<Frame("emitReadable_", s)>>, <<>>)
  /\ UNCHANGED cvars
  /\ UNCHANGED xvars
  /\ UNCHANGED <<data, index, wstate, micro, timers, ret, pl, state, out, msgs, now, log>>

\* onFinish, the callback handed to _final
onFinish ==
  /\ At("onFinish")
  /\ LET d == Cur.s
         w == [wstate[d] EXCEPT !.pendingcb = @ - 1, !.sync = FALSE]
     IN IF NeedFinish(w)
        THEN /\ wstate' = [wstate EXCEPT ![d] =
                   [w EXCEPT !.prefinished = TRUE, !.pendingcb = w.pendingcb + 1]]
             /\ Continue(<<>>, <<[op |-> "finishNT", s |-> d, checked |-> FALSE]>>)
        ELSE /\ wstate' = [wstate EXCEPT ![d] = w]
             /\ Continue(<<>>, <<>>)
  /\ UNCHANGED cvars
  /\ UNCHANGED xvars
  /\ UNCHANGED <<data, index, rstate, micro, timers, ret, pl, state, out, msgs, now, log>>

\* the tail of finishMaybe: if (state.pendingcb === 0) finish, on nextTick
\* when called from end() and at once when called from afterWrite
finishMaybeTail ==
  /\ At("finishMaybeTail")
  /\ LET d == Cur.s
         w == wstate[d]
     IN IF w.pendingcb = 0 /\ (Cur.sync \/ NeedFinish(w))
        THEN /\ wstate' = [wstate EXCEPT ![d] = [w EXCEPT !.pendingcb = 1]]
             /\ IF Cur.sync
                THEN Continue(<<>>, <<[op |-> "finishNT", s |-> d, checked |-> TRUE]>>)
                ELSE Continue(<<[op |-> "finishNT", s |-> d, checked |-> FALSE]>>, <<>>)
        ELSE /\ wstate' = wstate
             /\ Continue(<<>>, <<>>)
  /\ UNCHANGED cvars
  /\ UNCHANGED xvars
  /\ UNCHANGED <<data, index, rstate, micro, timers, ret, pl, state, out, msgs, now, log>>

\* finish(stream, state): 'finish' is emitted; the listener is the eos callback
finishNT ==
  /\ At("finishNT")
  /\ LET d == Cur.s
         w == [wstate[d] EXCEPT !.pendingcb = @ - 1]
     IN IF Cur.checked /\ ~NeedFinish(wstate[d])
        THEN /\ wstate' = [wstate EXCEPT ![d] = w]
             /\ pl' = pl
             /\ Continue(<<>>, <<>>)
        ELSE LET ws == [wstate EXCEPT ![d] = [w EXCEPT !.finished = TRUE]]
             IN /\ wstate' = ws
                /\ pl' = [pl EXCEPT !.done = IF StreamFinished(d, rstate, ws)
                                              THEN @ \cup {d} ELSE @]
                /\ Continue(<<[op |-> "eos", s |-> d, side |-> "w", err |-> NoError],
                              Frame("autoDestroy", d)>>, <<>>)
  /\ UNCHANGED cvars
  /\ UNCHANGED xvars
  /\ UNCHANGED <<data, index, rstate, micro, timers, ret, state, out, msgs, now, log>>

\* ------------------------------------------------ destroy and pipeline()
World(p, rs, ws, t) == [pl |-> p, r |-> rs, w |-> ws, t |-> t]

IsDestroyed(s, rs, ws) ==
  \/ HasReadable(s) /\ rs[s].destroyed
  \/ HasWritable(s) /\ ws[s].destroyed

\* stream.destroy(err): both sides are marked, 'error'/'close' come on nextTick
DestroyStream(wd, s, err) ==
  IF IsDestroyed(s, wd.r, wd.w) THEN wd
  ELSE World(wd.pl,
             IF HasReadable(s)
             THEN [wd.r EXCEPT ![s] = [@ EXCEPT !.destroyed = TRUE,
                                                !.errored = (@ \/ err # NoError)]]
             ELSE wd.r,
             IF HasWritable(s)
             THEN [wd.w EXCEPT ![s] = [@ EXCEPT !.destroyed = TRUE,
                                                !.errored = (@ \/ err # NoError)]]
             ELSE wd.w,
             wd.t \o <<[op |-> IF err # NoError THEN "emitErrorCloseNT" ELSE "emitCloseNT",
                        s |-> s, err |-> err]>>)

\* the destroys of pipelineImpl, run once: every stream whose destroyer has
\* not seen it finish is destroyed with the pipeline's error
RunDestroys(wd, err) ==
  LET todo(s) == s \notin wd.pl.done
      d1 == IF todo(SOURCE) THEN DestroyStream(wd, SOURCE, err) ELSE wd
      d2 == IF todo(TRANSFORM) THEN DestroyStream(d1, TRANSFORM, err) ELSE d1
      d3 == IF todo(SINK) THEN DestroyStream(d2, SINK, err) ELSE d2
  IN [d3 EXCEPT !.pl = [@ EXCEPT !.destroysRun = TRUE,
                                 !.done = {SOURCE, TRANSFORM, SINK}]]

\* which error pipeline() keeps: the first one, except that a premature
\* close is replaced by a later real error
KeepError(error, err) ==
  IF err # NoError /\ (error = NoError \/ error = PrematureClose) THEN err ELSE error

\* finish(err) of pipelineImpl: finishImpl(err, --finishCount === 0)
PFinish(wd, err) ==
  LET cnt == wd.pl.finishCount - 1
      isFinal == cnt = 0
      error == KeepError(wd.pl.error, err)
      w1 == [wd EXCEPT !.pl = [@ EXCEPT !.finishCount = cnt, !.error = error]]
  IN IF error = NoError /\ ~isFinal THEN w1
     ELSE LET w2 == IF w1.pl.destroysRun THEN w1 ELSE RunDestroys(w1, error)
          IN IF isFinal
             THEN [w2 EXCEPT !.t = @ \o <<[op |-> "callback", s |-> SINK, err |-> error]>>]
             ELSE w2

Here == World(pl, rstate, wstate, <<>>)

Apply(wd, frames) ==
  /\ pl' = wd.pl
  /\ rstate' = wd.r
  /\ wstate' = wd.w
  /\ Continue(frames, wd.t)

\* an eos callback registered by the pipeline's pipe(); it runs once
EosId(s, side) == <<s, side>>

eos ==
  /\ At("eos")
  /\ LET id == EosId(Cur.s, Cur.side)
     IN IF id \in pl.eos THEN Apply(Here, <<>>)
        ELSE Apply(PFinish([Here EXCEPT !.pl = [@ EXCEPT !.eos = @ \cup {id}]], Cur.err), <<>>)
  /\ UNCHANGED cvars
  /\ UNCHANGED xvars
  /\ UNCHANGED <<data, index, micro, timers, ret, state, out, msgs, now, log>>

\* the stream's own 'error' listener added by pipelineImpl: finish(err)
onError ==
  /\ At("onError")
  /\ Apply(PFinish(Here, Cur.err), <<>>)
  /\ UNCHANGED cvars
  /\ UNCHANGED xvars
  /\ UNCHANGED <<data, index, micro, timers, ret, state, out, msgs, now, log>>

\* autoDestroy after 'end' / 'finish': destroy() once both sides are done
autoDestroy ==
  /\ At("autoDestroy")
  /\ Apply(IF StreamFinished(Cur.s, rstate, wstate)
           THEN DestroyStream(Here, Cur.s, NoError) ELSE Here, <<>>)
  /\ UNCHANGED cvars
  /\ UNCHANGED xvars
  /\ UNCHANGED <<data, index, micro, timers, ret, state, out, msgs, now, log>>

MarkClosed(s, rs, ws, errEmitted) ==
  [r |-> IF HasReadable(s)
         THEN [rs EXCEPT ![s] = [@ EXCEPT !.closeEmitted = TRUE,
                                          !.errorEmitted = (@ \/ errEmitted)]]
         ELSE rs,
   w |-> IF HasWritable(s)
         THEN [ws EXCEPT ![s] = [@ EXCEPT !.closeEmitted = TRUE,
                                          !.errorEmitted = (@ \/ errEmitted)]]
         ELSE ws]

\* 'close' listeners: the destroyer notes the stream is gone, and the pipe's
\* dst.on('close') reports a premature close unless its endFn ran
OnClose(wd, s) ==
  LET w1 == [wd EXCEPT !.pl = [@ EXCEPT !.done = @ \cup {s}]]
  IN IF HasWritable(s) /\ s \notin wd.pl.ended THEN PFinish(w1, PrematureClose) ELSE w1

\* emitCloseNT(self)
emitCloseNT ==
  /\ At("emitCloseNT")
  /\ LET s == Cur.s
         m == MarkClosed(s, rstate, wstate, FALSE)
     IN Apply(OnClose(World(pl, m.r, m.w, <<>>), s), <<>>)
  /\ UNCHANGED cvars
  /\ UNCHANGED xvars
  /\ UNCHANGED <<data, index, micro, timers, ret, state, out, msgs, now, log>>

\* onwriteError(stream, state, er, cb): errorOrDestroy(stream, er)
onwriteError ==
  /\ At("onwriteError")
  /\ LET d == Cur.s
         ws == [wstate EXCEPT ![d] = [@ EXCEPT !.pendingcb = @ - 1]]
     IN Apply(DestroyStream(World(pl, rstate, ws, <<>>), d, Cur.err), <<>>)
  /\ UNCHANGED cvars
  /\ UNCHANGED xvars
  /\ UNCHANGED <<data, index, micro, timers, ret, state, out, msgs, now, log>>

\* emitErrorCloseNT(self, err): 'error' then 'close'.  The 'error' listeners
\* are the upstream pipe's onerror (unpipe, which pauses the reader), the
\* pipeline's onError and the eos callbacks; 'close' follows
emitErrorCloseNT ==
  /\ At("emitErrorCloseNT")
  /\ LET s == Cur.s
         m == MarkClosed(s, rstate, wstate, TRUE)
         rs == IF HasWritable(s)
               THEN [m.r EXCEPT ![Upstream(s)] = [@ EXCEPT !.flowing = FALSE]]
               ELSE m.r
         eosw == IF HasWritable(s)
                 THEN <<[op |-> "eos", s |-> s, side |-> "w", err |-> Cur.err]>> ELSE <<>>
         eosr == IF HasReadable(s)
                 THEN <<[op |-> "eos", s |-> s, side |-> "r", err |-> Cur.err]>> ELSE <<>>
     IN Apply(World(pl, rs, m.w, <<>>),
              <<[op |-> "onError", s |-> s, err |-> Cur.err]>> \o eosw \o eosr
              \o <<Frame("closeAfterError", s)>>)
  /\ UNCHANGED cvars
  /\ UNCHANGED xvars
  /\ UNCHANGED <<data, index, micro, timers, ret, state, out, msgs, now, log>>

\* the 'close' half of emitErrorCloseNT
closeAfterError ==
  /\ At("closeAfterError")
  /\ Apply(OnClose(Here, Cur.s), <<>>)
  /\ UNCHANGED cvars
  /\ UNCHANGED xvars
  /\ UNCHANGED <<data, index, micro, timers, ret, state, out, msgs, now, log>>

\* the callback of pipelineImpl settles the promise that run() awaits; a
\* promise settles once, later calls change nothing
callback ==
  /\ At("callback")
  /\ pl' = [pl EXCEPT !.called = @ + 1]
  /\ micro' = IF pl.called = 0 THEN Append(micro, [op |-> "run", err |-> Cur.err])
              ELSE micro
  /\ Continue(<<>>, <<>>)
  /\ UNCHANGED cvars
  /\ UNCHANGED xvars
  /\ UNCHANGED <<data, index, rstate, wstate, timers, ret, state, out, msgs, now, log>>

\* ------------------------------------------------ run() after its await
Idle == stack = <<>> /\ ticks = <<>>

\* line 97: the awaited pipeline resolved
runFinished ==
  /\ Idle /\ micro # <<>> /\ Head(micro).err = NoError
  /\ micro' = Tail(micro)
  /\ state' = "completed"
  /\ msgs' = Append(msgs, [msg |-> "Pipeline finished successfully.", err |-> NoError])
  /\ UNCHANGED cvars
  /\ UNCHANGED xvars
  /\ UNCHANGED <<data, index, rstate, wstate, stack, ticks, timers, ret, pl, out, now, log>>

\* variant: the success line is placed after the try/catch, so it is printed
\* on failure too
runFailed_alsoSuccess ==
  /\ Idle /\ micro # <<>> /\ Head(micro).err # NoError
  /\ micro' = Tail(micro)
  /\ state' = "completed"
  /\ msgs' = msgs \o <<[msg |-> "Pipeline failed:", err |-> Head(micro).err],
                        [msg |-> "Pipeline finished successfully.", err |-> NoError]>>
  /\ UNCHANGED cvars
  /\ UNCHANGED xvars
  /\ UNCHANGED <<data, index, rstate, wstate, stack, ticks, timers, ret, pl, out, now, log>>

\* lines 98-99: the awaited pipeline rejected
runFailed ==
  /\ Idle /\ micro # <<>> /\ Head(micro).err # NoError
  /\ micro' = Tail(micro)
  /\ state' = "failed"
  /\ msgs' = Append(msgs, [msg |-> "Pipeline failed:", err |-> Head(micro).err])
  /\ UNCHANGED cvars
  /\ UNCHANGED xvars
  /\ UNCHANGED <<data, index, rstate, wstate, stack, ticks, timers, ret, pl, out, now, log>>

\* line 33-34: a timer of `await setTimeout(200)` fires and that _read returns
DataSource_read_resume ==
  /\ Idle /\ micro = <<>> /\ timers > 0
  /\ timers' = timers - 1
  /\ UNCHANGED cvars
  /\ UNCHANGED xvars
  /\ UNCHANGED <<data, index, rstate, wstate, stack, ticks, micro, ret, pl, state, out, msgs, now, log>>

\* the host clock advances; only _read and _transform read it (Date.now()),
\* so it is advanced right before one of them runs
ReadsClock ==
  \/ At("_read") /\ Cur.s = SOURCE /\ ~AtEnd(index, data)
  \/ At("_transform")

\* variant: a host clock that wraps around, so it can go backwards
ClockAdvance_wraps ==
  /\ ReadsClock
  /\ now' = (now + 1) % (MaxClock + 1)
  /\ UNCHANGED cvars
  /\ UNCHANGED xvars
  /\ UNCHANGED <<data, index, rstate, wstate, stack, ticks, micro, timers, ret, pl, state, out, msgs, log>>

ClockAdvance ==
  /\ ReadsClock
  /\ now < MaxClock
  /\ now' = now + 1
  /\ UNCHANGED cvars
  /\ UNCHANGED xvars
  /\ UNCHANGED <<data, index, rstate, wstate, stack, ticks, micro, timers, ret, pl, state, out, msgs, log>>

Next ==
  \/ run
  \/ resume_
  \/ resumeEnd
  \/ flow
  \/ read
  \/ readPost
  \/ DataSource_read
  \/ Transform_read
  \/ write
  \/ writeEnd
  \/ UppercaseTransform_transform
  \/ DataSink_write
  \/ emitReadable_
  \/ maybeReadMore_
  \/ afterWriteTick
  \/ endReadableNT
  \/ end
  \/ finishMaybe
  \/ final
  \/ onFinish
  \/ finishMaybeTail
  \/ finishNT
  \/ eos
  \/ onError
  \/ autoDestroy
  \/ emitCloseNT
  \/ onwriteError
  \/ emitErrorCloseNT
  \/ closeAfterError
  \/ callback
  \/ runFinished
  \/ runFailed
  \/ DataSource_read_resume
  \/ ClockAdvance

Spec == Init /\ [][Next]_vars

Done == Idle /\ micro = <<>> /\ timers = 0 /\ state # "idle"

\* ------------------------------------------------ validity of the model
\* The engine branches that the model leaves out are never reached: buffers
\* stay below the high-water mark, a handler's push lands in the buffer and
\* its callback is synchronous, a write finds the stream idle and alive, and
\* every eos callback has run when a stream closes without error.
EngineBranchesCovered ==
  /\ \A s \in {SOURCE, TRANSFORM} : Len(rstate[s].buffer) < HighWaterMark
  /\ \A d \in {TRANSFORM, SINK} : wstate[d].length < HighWaterMark
  /\ At("_read") /\ Cur.s = SOURCE => rstate[SOURCE].sync
  /\ At("_transform") => rstate[TRANSFORM].sync
  /\ At("write") => LET w == wstate[Cur.s]
                    IN ~w.ending /\ ~w.destroyed /\ ~w.writing /\ ~w.errored
  /\ At("_transform") \/ At("_write") => wstate[Cur.s].sync
  /\ At("emitCloseNT") =>
        /\ HasReadable(Cur.s) => EosId(Cur.s, "r") \in pl.eos
        /\ HasWritable(Cur.s) => EosId(Cur.s, "w") \in pl.eos /\ Cur.s \in pl.ended

\* every run goes on until run() has printed its message and the timers fired
NoStuck == Done \/ ENABLED Next

\* --------------------------------------------------- history of a run
Events(e) == SelectSeq(log, LAMBDA x : x.e = e)
Count(e) == Len(Events(e))
Happened(e, p) == \E i \in 1..Len(log) : log[i] = Ev(e, p)
\* position in the log of the first event e of record p (0: none)
When(e, p) ==
  IF Happened(e, p) THEN CHOOSE i \in 1..Len(log) :
                            log[i] = Ev(e, p) /\ \A j \in 1..(i - 1) : log[j] # Ev(e, p)
  ELSE 0
Terminal == state \in {"completed", "failed"}
UpperCased(p) == IF p = "a" THEN "A" ELSE p
Success == [msg |-> "Pipeline finished successfully.", err |-> NoError]
Failure(err) == [msg |-> "Pipeline failed:", err |-> err]
LastEv == log[Len(log)]

\* ------------------------------------------------------------- claims
\* C1: a run that ends successfully has invoked DataSink._write exactly
\* Len(data) times, and the k-th record consumed is the upper-cased k-th
\* source element (records are consumed in the order the source made them).
C1_ConsumedInOrder ==
  state = "completed" =>
    /\ Count("write") = Len(data)
    /\ Len(out) = Len(data)
    /\ \A k \in 1..Len(data) :
          /\ Events("write")[k].pos = k - 1
          /\ out[k].pos = k - 1
          /\ out[k].data = UpperCased(data[k])

C1_Witness ==
  /\ state = "completed"
  /\ Len(data) >= 2 /\ data[1] = "a" /\ data[2] = "B"
  /\ out[1].data = "A" /\ out[2].data = "B"

\* C2: strict one-record-in-flight: at most one record is pushed by the
\* source and not yet acknowledged by the sink, and when _read is invoked to
\* make record j every earlier record i < j has been acknowledged by the sink.
C2_OneRecordInFlight ==
  /\ Count("push") - Count("ack") <= 1
  /\ \A t \in 1..Len(log) :
        log[t].e = "read" /\ log[t].pos < Len(data) =>
          \A i \in 0..(log[t].pos - 1) : When("ack", i) # 0 /\ When("ack", i) < t

\* C3: fail-fast on a Transform failure: once _transform has failed on
\* record k, DataSink._write is never invoked for record k or a later one,
\* and DataSource._read is never invoked again after the failure.
C3_FailFastOnTransform ==
  \A k \in 0..(Len(data) - 1) :
    Happened("terr", k) =>
      /\ \A p \in k..(Len(data) - 1) : ~Happened("write", p)
      /\ \A t \in 1..Len(log) : log[t].e = "read" => t < When("terr", k)

\* C4: run() reports exactly one of its two final messages, never both and
\* never one twice; the awaited pipeline settles once; the pipeline state
\* only moves idle -> running -> completed | failed, the last two being final.
C4_ResolvesOnce ==
  /\ [](/\ Len(msgs) <= 1
        /\ pl.called <= 1
        /\ state = "completed" <=> msgs = <<Success>>
        /\ state = "failed" <=> (Len(msgs) = 1 /\ msgs[1].msg = "Pipeline failed:")
        /\ Done => Len(msgs) = 1)
  /\ [][state' # state =>
          <<state, state'>> \in {<<"idle", "running">>, <<"running", "completed">>,
                                 <<"running", "failed">>}]_vars

C4_Witness == Done /\ state = "failed" /\ pl.finishCount < 0 /\ Len(msgs) = 1

\* C5: the pipeline is completed only after the source has pushed null and
\* the sink has processed every record the source pushed; it is never
\* reported successful while a pushed record is unconsumed.
C5_CompletedAfterAllConsumed ==
  state = "completed" =>
    /\ Count("eos") = 1
    /\ \A p \in 0..(Len(data) - 1) :
          Happened("push", p) => Happened("ack", p) /\ When("push", p) < When("ack", p)
    /\ Len(out) = Count("push")
    /\ \A s \in {SOURCE, TRANSFORM} : rstate[s].buffer = <<>>

C5_Witness ==
  state = "completed" /\ Count("push") = 2 /\ Count("ack") = 2 /\ Count("eos") = 1

\* C6: a mapping error is not swallowed: when the mapping throws for record
\* k, _transform reports it through its callback (the writable side is
\* errored) and does not forward record k, and the run ends failed with that
\* same error, never completed.
C6_TransformErrorPropagates ==
  \A k \in 0..(Len(data) - 1) :
    Happened("terr", k) =>
      /\ ~Happened("forward", k)
      /\ wstate[TRANSFORM].errored
      /\ pl.error \in {NoError, TypeError}
      /\ state # "completed"
      /\ Terminal \/ Done => state = "failed" /\ msgs = <<Failure(TypeError)>>

C6_Witness ==
  /\ state = "failed" /\ msgs = <<Failure(TypeError)>>
  /\ Happened("terr", 1) /\ Happened("forward", 0)

\* C8: a source whose backing list is empty yields a completed pipeline with
\* no call of _transform and no call of DataSink._write.
C8_EmptySource ==
  Len(data) = 0 =>
    /\ Count("transform") = 0
    /\ Count("write") = 0
    /\ out = <<>>
    /\ state # "failed"
    /\ Done => state = "completed"

C8_Witness == Len(data) = 0 /\ state = "completed" /\ Count("eos") = 1

\* C9: the cursor stays within 0..data.length and never decreases; a _read
\* that hands off a record hands off data[index] for the index before the
\* call and advances the cursor by one (the records pushed so far are the
\* positions 0..index-1, in order); a _read that signals the end leaves the
\* cursor unchanged; nothing else moves the cursor.
C9_Cursor ==
  /\ [](/\ 0 <= index /\ index <= Len(data)
        /\ Count("push") = index
        /\ \A k \in 1..Count("push") : Events("push")[k].pos = k - 1)
  /\ [][/\ index' >= index
        /\ index' # index => Count("read")' = Count("read") + 1
        /\ Count("read")' = Count("read") + 1 =>
             IF LastEv'.e = "push"
             THEN /\ index' = index + 1
                  /\ LastEv'.pos = index
                  /\ LET b == rstate'[SOURCE].buffer
                     IN b[Len(b)].pos = index /\ b[Len(b)].data = data[index + 1]
             ELSE LastEv'.e = "eos" /\ index' = index]_vars

C9_Witness == index = 2 /\ Count("eos") = 1 /\ Len(data) = 2

\* C10: _read is never invoked again after it has pushed null, and null is
\* pushed at most once per run.
C10_NoReadAfterEnd ==
  /\ Count("eos") <= 1
  /\ \A t \in 1..Len(log) :
        log[t].e = "eos" => \A u \in (t + 1)..Len(log) : log[u].e # "read"

C10_Witness == Count("eos") = 1 /\ Done /\ Len(data) >= 1

\* number of events e of record p in the history
Times(e, p) == Len(SelectSeq(log, LAMBDA x : x = Ev(e, p)))

\* C11: DataSink._write displays each record delivered to it exactly once
\* and then acknowledges it exactly once (the acknowledgement is the event
\* right after the display); no record is displayed twice in a run, and a
\* record is displayed only after the transform forwarded it.
C11_SinkOncePerRecord ==
  /\ [](/\ \A p \in 0..MaxLen :
              /\ Times("write", p) <= 1
              /\ Times("ack", p) = Times("write", p)
              /\ Happened("write", p) =>
                    /\ Happened("forward", p)
                    /\ When("forward", p) < When("write", p)
                    /\ When("ack", p) = When("write", p) + 1
        /\ Len(out) = Count("write")
        /\ \A k \in 1..Len(out) : out[k].pos = Events("write")[k].pos
        /\ At("_write") => Times("write", Cur.chunk.pos) = 0)
  /\ [][At("_write") =>
          /\ log' = log \o <<Ev("write", Cur.chunk.pos), Ev("ack", Cur.chunk.pos)>>
          /\ out' = Append(out, Cur.chunk)
          /\ wstate[SINK].writing /\ ~wstate'[SINK].writing]_vars

C11_Witness ==
  /\ Times("write", 0) = 1 /\ Times("ack", 0) = 1
  /\ Times("write", 1) = 1 /\ Times("ack", 1) = 1
  /\ Len(out) = 2 /\ Done

\* the list ["a", <malformed>, "c"] of the failure scenario
FailureScenario == <<"a", Malformed, "B">>

\* C12: with the source list ["a", <malformed>, "c"] the sink is called for
\* "A" only, the run ends failed with the transform's error, and the third
\* element is never produced (pushed) by the source at any point of the run.
C12_FailureScenario ==
  data = FailureScenario =>
    /\ \A k \in 1..Len(out) : out[k].pos = 0 /\ out[k].data = "A"
    /\ Len(out) <= 1
    /\ state # "completed"
    /\ Done => Len(out) = 1 /\ state = "failed" /\ msgs = <<Failure(TypeError)>>
    /\ ~Happened("push", 2)

\* the event loop runs every ready callback and fires every pending timer
FairSpec == Spec /\ WF_vars(Next)

\* C13: for every finite source list, when ready callbacks and timers are
\* eventually run, the run reaches completed or failed and run() has printed
\* one of its two messages; no state has the pipeline still running (or not
\* yet started) with no step enabled.
C13_Terminates ==
  /\ <>(Terminal /\ Len(msgs) = 1)
  /\ <>[]Done
  /\ [](~Terminal => ENABLED Next)
  /\ []NoStuck

C13_Witness ==
  /\ Done /\ state = "completed" /\ Len(data) = MaxLen
  /\ Count("push") = MaxLen /\ msgs = <<Success>>

\* the records that have left the transform: those waiting in its readable
\* buffer, those being handed to the sink, and those the sink displayed
Forwarded ==
  {rstate[TRANSFORM].buffer[i] : i \in 1..Len(rstate[TRANSFORM].buffer)}
  \cup {stack[i].chunk : i \in {j \in 1..Len(stack) :
                                   stack[j].op \in {"write", "_write"} /\ stack[j].s = SINK}}
  \cup {out[i] : i \in 1..Len(out)}

AtSink == {out[i] : i \in 1..Len(out)}

\* C14: with a clock that never decreases (ClockAdvance only adds to it),
\* every record that has left the transform has transformedAt >= timestamp,
\* and every record that reached the sink carries both timestamps.
C14_Timestamps ==
  /\ \A c \in Forwarded :
        /\ {"timestamp", "transformedAt"} \subseteq DOMAIN c
        /\ c.transformedAt >= c.timestamp
  /\ \A c \in AtSink : {"timestamp", "transformedAt"} \subseteq DOMAIN c

C14_Witness ==
  \E c \in AtSink : c.timestamp = 0 /\ c.transformedAt = 1

\* C15: the records forwarded by the transform towards the sink whose
\* display by the sink has not happened yet number at most one.
C15_AtMostOnePending ==
  /\ Count("forward") - Count("write") <= 1
  /\ Cardinality({c.pos : c \in Forwarded \ AtSink}) <= 1

\* C16: the mapping is a function of the payload alone: two records with
\* the same input payload leave the transform with the same output payload,
\* whatever their timestamps and whatever records came before them, and that
\* output is the upper-cased input.
C16_DeterministicMapping ==
  /\ \A c1, c2 \in Forwarded :
        data[c1.pos + 1] = data[c2.pos + 1] => c1.data = c2.data
  /\ \A c \in Forwarded : c.data = UpperCased(data[c.pos + 1])

C16_Witness ==
  /\ data = <<"a", "B", "a">> /\ Len(out) = 3
  /\ out[1].data = "A" /\ out[3].data = "A"
  /\ out[1].timestamp # out[3].timestamp
  /\ out[1].transformedAt # out[3].transformedAt

\* The stage holding record p at place t of the history: the source until
\* its push(chunk) (line 29), the transform from there until its own
\* push(chunk) (line 58), the sink afterwards.
Holder(p, t) ==
  IF ~Happened("push", p) \/ t <= When("push", p) THEN SOURCE
  ELSE IF ~Happened("forward", p) \/ t <= When("forward", p) THEN TRANSFORM
  ELSE SINK

\* The field writes of the run, as <<stage, record, place in the history>>:
\* the source writes data and timestamp when it makes the record (line 27),
\* the transform writes data and transformedAt (lines 53-54) in a call that
\* does not throw; the sink writes nothing.
FieldWrites ==
  {<<SOURCE, log[t].pos, t>> : t \in {u \in 1..Len(log) :
        log[u].e = "read" /\ log[u].pos < Len(data)}}
  \cup {<<TRANSFORM, log[t].pos, t>> : t \in {u \in 1..Len(log) :
        /\ log[u].e = "transform"
        /\ u < Len(log) => log[u + 1].e # "terr"}}

\* C17: every field write to a record is made by the stage that holds the
\* record at that moment; after a stage has forwarded a record it writes no
\* field of it any more.
C17_NoWriteAfterForward ==
  \A w \in FieldWrites :
    /\ Holder(w[2], w[3]) = w[1]
    /\ w[1] = SOURCE /\ Happened("push", w[2]) => w[3] < When("push", w[2])
    /\ w[1] = TRANSFORM /\ Happened("forward", w[2]) => w[3] < When("forward", w[2])

C17_Witness ==
  /\ \E w \in FieldWrites : w[1] = TRANSFORM /\ w[2] = 1 /\ Happened("write", 1)
  /\ \E w \in FieldWrites : w[1] = SOURCE /\ w[2] = 1
  /\ Done

\* ====================================================================
\* runChildProcessExamples (src/unnamed/part_000, lines 161-281) and the
\* worker script of its fork example (src/02_std_lib/os-demo.js, 337-367)
\* ====================================================================
MaxChunks == 2

ExitCodes == {"0", "1"}
Null == "null"

\* IPC messages: { event: ... } from the worker, { task: ..., data: 1e7 } to it
Msg(event, task) == [event |-> event, task |-> task]
Ready == Msg("ready", Undefined)
CalculationComplete == Msg("calculationComplete", Undefined)
UnknownTask == Msg("error", Undefined)
Calculate == Msg(Undefined, "calculate")
\* the message null (send(null) is accepted and delivered as null)
NullMessage == Msg(Null, Null)

\* the parent is at an await, so its event loop can run a callback
ParentIdle == ppc \in {"awaitExec", "await500", "awaitClose", "awaitExit", "complete"}

\* an entry of the history: what happened, and to which process or message
H(e, c) == [e |-> e, c |-> c]

Start(c) == [procs EXCEPT ![c] = [NoProcess EXCEPT !.st = "running"]]
Reap(c) == [procs EXCEPT ![c] = [@ EXCEPT !.st = "reaped"]]

ChildInit == Init /\ data = <<>>

\* lines 169-182: Example 1 starts `node --version && npm --version` in a
\* shell and awaits the promisified exec
runChildProcessExamples ==
  /\ ppc = "start"
  /\ ppc' = "awaitExec"
  /\ procs' = Start(EXEC)
  /\ console' = Append(console, "--- Example 1")
  /\ hist' = Append(hist, H("start", EXEC))
  /\ UNCHANGED <<ipc, chunks>>
  /\ UNCHANGED svars
  /\ UNCHANGED xvars

\* a child (exec's shell, execFile's node, ping) ends on its own, with an
\* exit code, having written to stderr or not
childExits ==
  \E c \in {EXEC, EXECFILE, PING}, code \in ExitCodes, e \in BOOLEAN :
    /\ procs[c].st = "running"
    /\ c # EXEC => ~e
    /\ procs' = [procs EXCEPT ![c] = [@ EXCEPT !.st = "exited", !.code = code,
                                                !.stderr = e]]
    /\ hist' = Append(hist, H("exit", c))
    /\ UNCHANGED <<ppc, ipc, chunks, console>>
    /\ UNCHANGED svars
    /\ UNCHANGED xvars

\* lines 182-211: the awaited exec settles; its output or its error is
\* printed, then Example 2 calls execFile and the function awaits 500 ms
execSettled ==
  /\ ppc = "awaitExec"
  /\ procs[EXEC].st = "exited"
  /\ ppc' = "await500"
  /\ procs' = [Reap(EXEC) EXCEPT ![EXECFILE] = [NoProcess EXCEPT !.st = "running"]]
  /\ console' = console
        \o (IF procs[EXEC].code = "0"
            THEN <<"Command successful:", "stdout:">>
                 \o (IF procs[EXEC].stderr THEN <<"stderr:">> ELSE <<>>)
            ELSE <<"Error executing command:">>)
        \o <<"--- Example 2">>
  /\ hist' = hist \o <<H("start", EXECFILE), H("timer", "set")>>
  /\ UNCHANGED <<ipc, chunks>>
  /\ UNCHANGED svars
  /\ UNCHANGED xvars

\* lines 201-208: execFile's completion callback
execFileCallback ==
  /\ ParentIdle
  /\ procs[EXECFILE].st = "exited"
  /\ procs' = Reap(EXECFILE)
  /\ console' = console \o (IF procs[EXECFILE].code = "0"
                             THEN <<"Executable finished:", "stdout:">>
                             ELSE <<"Error executing file:">>)
  /\ hist' = Append(hist, H("callback", EXECFILE))
  /\ UNCHANGED <<ppc, ipc, chunks>>
  /\ UNCHANGED svars
  /\ UNCHANGED xvars

\* lines 211-242: the 500 ms timer fires; Example 3 spawns ping, registers
\* its listeners and awaits the process's 'close'
timer500 ==
  /\ ppc = "await500"
  /\ ppc' = "awaitClose"
  /\ procs' = Start(PING)
  /\ console' = console \o <<"--- Example 3", "Spawned process with PID">>
  /\ hist' = hist \o <<H("timer", "fired"), H("start", PING)>>
  /\ UNCHANGED <<ipc, chunks>>
  /\ UNCHANGED svars
  /\ UNCHANGED xvars

\* the ping process writes a chunk of output to one of its pipes
pingWrites ==
  \E pipe \in {"stdout", "stderr"} :
    /\ procs[PING].st = "running"
    /\ chunks.written < MaxChunks
    /\ chunks' = [chunks EXCEPT ![pipe] = @ + 1, !.written = @ + 1]
    /\ UNCHANGED <<ppc, procs, ipc, console, hist>>
    /\ UNCHANGED svars
    /\ UNCHANGED xvars

\* lines 227-229: pingProcess.stdout.on('data', ...)
pingStdoutData ==
  /\ ParentIdle
  /\ chunks.stdout > 0
  /\ chunks' = [chunks EXCEPT !.stdout = @ - 1]
  /\ console' = Append(console, "[ping stdout]")
  /\ UNCHANGED <<ppc, procs, ipc, hist>>
  /\ UNCHANGED svars
  /\ UNCHANGED xvars

\* lines 232-234: pingProcess.stderr.on('data', ...)
pingStderrData ==
  /\ ParentIdle
  /\ chunks.stderr > 0
  /\ chunks' = [chunks EXCEPT !.stderr = @ - 1]
  /\ console' = Append(console, "[ping stderr]")
  /\ UNCHANGED <<ppc, procs, ipc, hist>>
  /\ UNCHANGED svars
  /\ UNCHANGED xvars

\* lines 237-242: 'close' of ping (the process has ended and its pipes are
\* drained): the first listener prints the code, the second resolves the
\* awaited promise
pingClose ==
  /\ ppc = "awaitClose"
  /\ procs[PING].st = "exited"
  /\ chunks.stdout = 0 /\ chunks.stderr = 0
  /\ ppc' = "example4"
  /\ procs' = Reap(PING)
  /\ console' = Append(console, "[ping] child process exited with code")
  /\ hist' = Append(hist, H("close", PING))
  /\ UNCHANGED <<ipc, chunks>>
  /\ UNCHANGED svars
  /\ UNCHANGED xvars

\* lines 252-277: Example 4 forks the worker, registers the 'message' and
\* 'exit' listeners and awaits the worker's 'exit'
forkWorker ==
  /\ ppc = "example4"
  /\ ppc' = "awaitExit"
  /\ procs' = [procs EXCEPT ![WORKER] = [NoProcess EXCEPT !.st = "running",
                                                          !.at = "loaded"]]
  /\ console' = console \o <<"--- Example 4", "Forked worker process with PID">>
  /\ hist' = Append(hist, H("start", WORKER))
  /\ UNCHANGED <<ipc, chunks>>
  /\ UNCHANGED svars
  /\ UNCHANGED xvars

\* os-demo.js line 348: the worker script registers its 'message' handler
workerRegisters ==
  /\ procs[WORKER].st = "running" /\ procs[WORKER].at = "loaded"
  /\ procs' = [procs EXCEPT ![WORKER] = [@ EXCEPT !.at = "listening"]]
  /\ hist' = Append(hist, H("register", WORKER))
  /\ UNCHANGED <<ppc, ipc, chunks, console>>
  /\ UNCHANGED svars
  /\ UNCHANGED xvars

\* os-demo.js line 367: process.send({ event: 'ready' }); the script is over
\* and the worker's event loop takes over
workerSendsReady ==
  /\ procs[WORKER].st = "running" /\ procs[WORKER].at = "listening"
  /\ procs' = [procs EXCEPT ![WORKER] = [@ EXCEPT !.at = "idle"]]
  /\ ipc' = [ipc EXCEPT !.toParent = Append(@, Ready)]
  /\ hist' = Append(hist, H("send", Ready.event))
  /\ UNCHANGED <<ppc, chunks, console>>
  /\ UNCHANGED svars
  /\ UNCHANGED xvars

\* os-demo.js lines 348-364: the worker's 'message' handler; reading
\* message.task of the message null throws a TypeError, which nothing
\* catches: the worker ends with exit code 1 and sends no reply
workerOnMessage ==
  /\ procs[WORKER].st = "running" /\ procs[WORKER].at = "idle"
  /\ ipc.toWorker # <<>>
  /\ LET message == Head(ipc.toWorker)
         reply == IF message.task = "calculate" THEN CalculationComplete
                  ELSE UnknownTask
     IN IF message = NullMessage
        THEN /\ ipc' = [ipc EXCEPT !.toWorker = Tail(@)]
             /\ procs' = [procs EXCEPT ![WORKER] =
                            [@ EXCEPT !.st = "exited", !.code = "1", !.stderr = TRUE]]
             /\ console' = Append(console, "Uncaught TypeError")
             /\ hist' = hist \o <<H("recv", Null), H("exit", WORKER)>>
        ELSE /\ ipc' = [toWorker |-> Tail(ipc.toWorker),
                        toParent |-> Append(ipc.toParent, reply)]
             /\ procs' = procs
             /\ console' = IF message.task = "calculate"
                           THEN Append(console, "[Worker] Received task") ELSE console
             /\ hist' = hist \o <<H("recv", message.task), H("send", reply.event)>>
  /\ UNCHANGED <<ppc, chunks>>
  /\ UNCHANGED svars
  /\ UNCHANGED xvars

\* workerProcess.kill(): SIGTERM is sent to the worker if it is still there
Kill(ps) ==
  IF ps[WORKER].st = "running"
  THEN [ps EXCEPT ![WORKER] = [@ EXCEPT !.signalled = TRUE]]
  ELSE ps

\* variant: the parent never calls kill()
parentOnMessage_nokill ==
  /\ ParentIdle
  /\ ipc.toParent # <<>>
  /\ LET message == Head(ipc.toParent)
         isReady == message.event = "ready"
         isComplete == message.event = "calculationComplete"
     IN /\ ipc' = [toParent |-> Tail(ipc.toParent),
                   toWorker |-> IF isReady THEN Append(ipc.toWorker, Calculate)
                                ELSE ipc.toWorker]
        /\ procs' = procs
        /\ console' = console
              \o (IF isReady THEN <<"[Parent] Worker is ready. Sending it a task...">>
                  ELSE <<>>)
              \o (IF isComplete THEN <<"[Parent] Received result from worker">>
                  ELSE <<>>)
        /\ hist' = hist \o <<H("recv", message.event)>>
              \o (IF isReady THEN <<H("send", Calculate.task)>> ELSE <<>>)
  /\ UNCHANGED <<ppc, chunks>>
  /\ UNCHANGED svars
  /\ UNCHANGED xvars

\* variant: the parent sends the task again when the result arrives
parentOnMessage_resend ==
  /\ ParentIdle
  /\ ipc.toParent # <<>>
  /\ LET message == Head(ipc.toParent)
         isReady == message.event = "ready"
         isComplete == message.event = "calculationComplete"
     IN /\ ipc' = [toParent |-> Tail(ipc.toParent),
                   toWorker |-> IF isReady \/ isComplete
                                THEN Append(ipc.toWorker, Calculate)
                                ELSE ipc.toWorker]
        /\ procs' = IF isComplete THEN Kill(procs) ELSE procs
        /\ console' = console
              \o (IF isReady THEN <<"[Parent] Worker is ready. Sending it a task...">>
                  ELSE <<>>)
              \o (IF isComplete THEN <<"[Parent] Received result from worker">>
                  ELSE <<>>)
        /\ hist' = hist \o <<H("recv", message.event)>>
              \o (IF isReady \/ isComplete THEN <<H("send", Calculate.task)>> ELSE <<>>)
              \o (IF isComplete THEN <<H("kill", WORKER)>> ELSE <<>>)
  /\ UNCHANGED <<ppc, chunks>>
  /\ UNCHANGED svars
  /\ UNCHANGED xvars

\* part_000 lines 259-270: the parent's 'message' listener
parentOnMessage ==
  /\ ParentIdle
  /\ ipc.toParent # <<>>
  /\ LET message == Head(ipc.toParent)
         isReady == message.event = "ready"
         isComplete == message.event = "calculationComplete"
     IN /\ ipc' = [toParent |-> Tail(ipc.toParent),
                   toWorker |-> IF isReady THEN Append(ipc.toWorker, Calculate)
                                ELSE ipc.toWorker]
        /\ procs' = IF isComplete THEN Kill(procs) ELSE procs
        /\ console' = console
              \o (IF isReady THEN <<"[Parent] Worker is ready. Sending it a task...">>
                  ELSE <<>>)
              \o (IF isComplete THEN <<"[Parent] Received result from worker">>
                  ELSE <<>>)
        /\ hist' = hist \o <<H("recv", message.event)>>
              \o (IF isReady THEN <<H("send", Calculate.task)>> ELSE <<>>)
              \o (IF isComplete THEN <<H("kill", WORKER)>> ELSE <<>>)
  /\ UNCHANGED <<ppc, chunks>>
  /\ UNCHANGED svars
  /\ UNCHANGED xvars

\* SIGTERM ends the worker (it installs no handler for it): no exit code
workerKilled ==
  /\ procs[WORKER].st = "running" /\ procs[WORKER].signalled
  /\ procs' = [procs EXCEPT ![WORKER] = [@ EXCEPT !.st = "exited", !.code = Null]]
  /\ hist' = Append(hist, H("exit", WORKER))
  /\ UNCHANGED <<ppc, ipc, chunks, console>>
  /\ UNCHANGED svars
  /\ UNCHANGED xvars

\* part_000 lines 272-277: 'exit' of the worker: the first listener prints
\* the code, the second resolves the awaited promise
workerExit ==
  /\ ppc = "awaitExit"
  /\ procs[WORKER].st = "exited"
  /\ ppc' = "resolved"
  /\ procs' = Reap(WORKER)
  /\ console' = Append(console, "[worker] child process exited with code")
  /\ hist' = Append(hist, H("exitEvent", WORKER))
  /\ UNCHANGED <<ipc, chunks>>
  /\ UNCHANGED svars
  /\ UNCHANGED xvars

\* part_000 line 278, after the await
allComplete ==
  /\ ppc = "resolved"
  /\ ppc' = "complete"
  /\ console' = Append(console, "All examples complete.")
  /\ UNCHANGED <<procs, ipc, chunks, hist>>
  /\ UNCHANGED svars
  /\ UNCHANGED xvars

ChildNext ==
  \/ runChildProcessExamples
  \/ childExits
  \/ execSettled
  \/ execFileCallback
  \/ timer500
  \/ pingWrites
  \/ pingStdoutData
  \/ pingStderrData
  \/ pingClose
  \/ forkWorker
  \/ workerRegisters
  \/ workerSendsReady
  \/ workerOnMessage
  \/ parentOnMessage
  \/ workerKilled
  \/ workerExit
  \/ allComplete

ChildSpec == ChildInit /\ [][ChildNext]_vars

\* messages and signals in flight are delivered, the worker script runs on,
\* and the parent's continuation after its await runs
FairChildSpec ==
  /\ ChildSpec
  /\ WF_vars(workerRegisters) /\ WF_vars(workerSendsReady)
  /\ WF_vars(workerOnMessage) /\ WF_vars(parentOnMessage)
  /\ WF_vars(workerKilled) /\ WF_vars(workerExit) /\ WF_vars(allComplete)

\* nothing is left to happen in the child-process demo
ChildDone ==
  /\ ppc = "complete"
  /\ \A c \in {EXEC, EXECFILE, PING, WORKER} : procs[c].st = "reaped"

\* ------------------------------------------- history of the demo's run
HTimes(e, c) == Len(SelectSeq(hist, LAMBDA x : x = H(e, c)))
\* every event b of the history has an event a somewhere before it
Before(a, b) ==
  \A i \in 1..Len(hist) : hist[i] = b => \E j \in 1..(i - 1) : hist[j] = a
Printed(line) == \E i \in 1..Len(console) : console[i] = line

\* ------------------------------------------------------------- claims
\* C18: the parent sends 'calculate' only after it received 'ready', sends
\* it at most once (exactly once in a run that got to the end), and calls
\* kill() only after it received 'calculationComplete'; the worker receives
\* a task only after it has registered its 'message' handler.
C18_RequestResponseOrder ==
  /\ Before(H("recv", "ready"), H("send", "calculate"))
  /\ HTimes("send", "calculate") <= 1
  /\ ppc = "complete" => HTimes("send", "calculate") = 1
  /\ Before(H("recv", "calculationComplete"), H("kill", WORKER))
  /\ Before(H("register", WORKER), H("recv", "calculate"))
  /\ ipc.toWorker # <<>> => procs[WORKER].at = "idle"

C18_Witness ==
  /\ ppc = "complete"
  /\ HTimes("recv", "ready") = 1 /\ HTimes("send", "calculate") = 1
  /\ HTimes("recv", "calculate") = 1 /\ HTimes("kill", WORKER) = 1

\* C19: once the worker is forked, with messages and the signal delivered,
\* the exchange ready, calculate, calculationComplete, kill, exit runs to
\* its end in that order: the parent's wait on 'exit' resolves and
\* 'All examples complete.' is printed; the parent never waits for ever.
C19_ForkTerminates ==
  /\ (procs[WORKER].st = "running") ~>
        (ppc = "complete" /\ Printed("All examples complete."))
  /\ (ppc = "awaitExit") ~> (ppc # "awaitExit")
  /\ [](ppc = "complete" =>
          /\ Before(H("send", "ready"), H("send", "calculate"))
          /\ Before(H("send", "calculate"), H("send", "calculationComplete"))
          /\ Before(H("send", "calculationComplete"), H("kill", WORKER))
          /\ Before(H("kill", WORKER), H("exit", WORKER))
          /\ Before(H("exit", WORKER), H("exitEvent", WORKER))
          /\ HTimes("exitEvent", WORKER) = 1)

C19_Witness ==
  /\ ppc = "complete" /\ Printed("All examples complete.")
  /\ procs[WORKER].st = "reaped" /\ procs[WORKER].code = Null
  /\ HTimes("exitEvent", WORKER) = 1

\* C20: when Example 3 starts (ping is spawned) the execFile callback has
\* run and printed its output or its error, however the child's completion
\* and the 500 ms timer interleave.
C20_ExecFileBeforeSpawn ==
  procs[PING].st # "none" =>
    /\ procs[EXECFILE].st = "reaped"
    /\ Printed("Executable finished:") \/ Printed("Error executing file:")

\* ====================================================================
\* The event-loop demo (src/02_std_lib/file.js, lines 154-242)
\* ====================================================================
\* fs.readFile goes to the thread pool for open, fstat, read and close
ReadSteps == 4

\* no process.nextTick callback and no promise job is waiting: the event
\* loop may go on
Drained == loop.nextTicks = <<>> /\ loop.microtasks = <<>>

\* formatOutput(message, phase), lines 176-184: one row of the table
formatOutput(message) == Append(rows, message)

LoopInit == Init /\ data = <<>>

\* lines 186-238: the script itself, run to its end
script ==
  /\ loop.phase = "start"
  /\ loop' = [loop EXCEPT
        !.phase = "script",
        !.timers = <<"setTimeout callback">>,
        !.immediates = <<"setImmediate callback">>,
        !.read = [st |-> "pending", left |-> ReadSteps],
        !.nextTicks = <<"process.nextTick callback">>,
        !.microtasks = <<"Promise.resolve callback">>]
  /\ rows' = rows \o <<"Start of script", "End of script">>
  /\ UNCHANGED <<fsrun, fsout, bars>>
  /\ UNCHANGED <<svars, cvars>>

\* the next callback of the process.nextTick queue (lines 217-219, 227-229)
runNextTick ==
  /\ loop.phase # "start"
  /\ loop.nextTicks # <<>>
  /\ loop' = [loop EXCEPT !.nextTicks = Tail(@)]
  /\ rows' = formatOutput(Head(loop.nextTicks))
  /\ UNCHANGED <<fsrun, fsout, bars>>
  /\ UNCHANGED <<svars, cvars>>

\* variant: promise jobs do not wait for the process.nextTick queue
runMicrotask_eager ==
  /\ loop.phase # "start"
  /\ loop.microtasks # <<>>
  /\ loop' = [loop EXCEPT !.microtasks = Tail(@)]
  /\ rows' = formatOutput(Head(loop.microtasks))
  /\ UNCHANGED <<fsrun, fsout, bars>>
  /\ UNCHANGED <<svars, cvars>>

\* the next promise job (lines 221-223, 233-235), once the process.nextTick
\* queue is empty
runMicrotask ==
  /\ loop.phase # "start"
  /\ loop.nextTicks = <<>>
  /\ loop.microtasks # <<>>
  /\ loop' = [loop EXCEPT !.microtasks = Tail(@)]
  /\ rows' = formatOutput(Head(loop.microtasks))
  /\ UNCHANGED <<fsrun, fsout, bars>>
  /\ UNCHANGED <<svars, cvars>>

\* the script is over and its queues are drained: the event loop starts
\* with its timers phase
enterLoop ==
  /\ loop.phase = "script" /\ Drained
  /\ loop' = [loop EXCEPT !.phase = "timers"]
  /\ UNCHANGED <<rows, fsrun, fsout, bars>>
  /\ UNCHANGED <<svars, cvars>>

\* timers phase: the oldest timer has expired and its callback runs
\* (lines 194-196, 209-211)
runTimer ==
  /\ loop.phase = "timers" /\ Drained
  /\ loop.timers # <<>>
  /\ loop' = [loop EXCEPT !.timers = Tail(@)]
  /\ rows' = formatOutput(Head(loop.timers))
  /\ UNCHANGED <<fsrun, fsout, bars>>
  /\ UNCHANGED <<svars, cvars>>

\* timers phase is over: no timer is left or the oldest has not expired yet
timersDone ==
  /\ loop.phase = "timers" /\ Drained
  /\ loop' = [loop EXCEPT !.phase = "poll"]
  /\ UNCHANGED <<rows, fsrun, fsout, bars>>
  /\ UNCHANGED <<svars, cvars>>

\* the thread pool finishes the current step of fs.readFile
readProgress ==
  /\ loop.read.st = "pending"
  /\ loop' = [loop EXCEPT !.read.st = "ready"]
  /\ UNCHANGED <<rows, fsrun, fsout, bars>>
  /\ UNCHANGED <<svars, cvars>>

\* poll phase: a step of fs.readFile other than the last has succeeded and
\* the next one is handed to the thread pool
readFileStep ==
  /\ loop.phase = "poll" /\ Drained
  /\ loop.read.st = "ready" /\ loop.read.left > 1
  /\ loop' = [loop EXCEPT !.read = [st |-> "pending", left |-> @.left - 1]]
  /\ UNCHANGED <<rows, fsrun, fsout, bars>>
  /\ UNCHANGED <<svars, cvars>>

\* poll phase: fs.readFile is over (its last step is done, or a step has
\* failed) and its callback runs, lines 205-224; the callback ignores its
\* arguments
readFileCallback ==
  \E failed \in BOOLEAN :
    /\ loop.phase = "poll" /\ Drained
    /\ loop.read.st = "ready"
    /\ loop.read.left = 1 \/ failed
    /\ loop' = [loop EXCEPT
          !.read = [st |-> "called", left |-> 0],
          !.timers = Append(@, "setTimeout inside I/O"),
          !.immediates = Append(@, "setImmediate inside I/O"),
          !.nextTicks = Append(@, "process.nextTick inside I/O"),
          !.microtasks = Append(@, "Promise.resolve inside I/O")]
    /\ rows' = formatOutput("fs.readFile callback")
    /\ UNCHANGED <<fsrun, fsout, bars>>
    /\ UNCHANGED <<svars, cvars>>

\* poll phase is over
pollDone ==
  /\ loop.phase = "poll" /\ Drained
  /\ loop' = [loop EXCEPT !.phase = "check"]
  /\ UNCHANGED <<rows, fsrun, fsout, bars>>
  /\ UNCHANGED <<svars, cvars>>

\* check phase: the next setImmediate callback (lines 199-201, 213-215)
runImmediate ==
  /\ loop.phase = "check" /\ Drained
  /\ loop.immediates # <<>>
  /\ loop' = [loop EXCEPT !.immediates = Tail(@)]
  /\ rows' = formatOutput(Head(loop.immediates))
  /\ UNCHANGED <<fsrun, fsout, bars>>
  /\ UNCHANGED <<svars, cvars>>

\* something is still to come: a timer, an immediate, the read
LoopAlive ==
  \/ loop.timers # <<>>
  \/ loop.immediates # <<>>
  \/ loop.read.st \in {"pending", "ready"}

\* check phase is over: the loop goes round while something is to come
checkDone ==
  /\ loop.phase = "check" /\ Drained
  /\ loop.immediates = <<>>
  /\ LoopAlive
  /\ loop' = [loop EXCEPT !.phase = "timers"]
  /\ UNCHANGED <<rows, fsrun, fsout, bars>>
  /\ UNCHANGED <<svars, cvars>>

\* lines 240-242: nothing is left, 'beforeExit' and the process ends
beforeExit ==
  /\ loop.phase = "check" /\ Drained
  /\ ~LoopAlive
  /\ loop' = [loop EXCEPT !.phase = "exit"]
  /\ rows' = Append(rows, "Exiting the event loop")
  /\ UNCHANGED <<fsrun, fsout, bars>>
  /\ UNCHANGED <<svars, cvars>>

LoopNext ==
  \/ script
  \/ runNextTick
  \/ runMicrotask
  \/ enterLoop
  \/ runTimer
  \/ timersDone
  \/ readProgress
  \/ readFileStep
  \/ readFileCallback
  \/ pollDone
  \/ runImmediate
  \/ checkDone
  \/ beforeExit

LoopSpec == LoopInit /\ [][LoopNext]_vars

\* ------------------------------------------------ the printed table
\* place of a message in the output (0: not printed)
Row(m) ==
  IF \E i \in 1..Len(rows) : rows[i] = m
  THEN CHOOSE i \in 1..Len(rows) : rows[i] = m /\ \A j \in 1..(i - 1) : rows[j] # m
  ELSE 0
\* b is printed only after a has been printed
RowBefore(a, b) == Row(b) # 0 => Row(a) # 0 /\ Row(a) < Row(b)

\* C21: the output starts with 'Start of script', 'End of script', the
\* top-level process.nextTick callback and the top-level Promise callback,
\* in that order, so these precede every setTimeout, setImmediate and
\* fs.readFile callback; right after the fs.readFile callback come the
\* nextTick and then the Promise callback scheduled in it, both before the
\* setImmediate and the setTimeout scheduled there, of which setImmediate
\* runs first.
C21_EventLoopOrder ==
  /\ \A k \in 1..Len(rows) :
        k <= 4 => rows[k] = <<"Start of script", "End of script",
                              "process.nextTick callback",
                              "Promise.resolve callback">>[k]
  /\ \A m \in {"setTimeout callback", "setImmediate callback", "fs.readFile callback",
                "setTimeout inside I/O", "setImmediate inside I/O"} :
        /\ RowBefore("process.nextTick callback", m)
        /\ RowBefore("Promise.resolve callback", m)
  /\ RowBefore("fs.readFile callback", "process.nextTick inside I/O")
  /\ RowBefore("process.nextTick inside I/O", "Promise.resolve inside I/O")
  /\ \A m \in {"setImmediate inside I/O", "setTimeout inside I/O"} :
        /\ RowBefore("process.nextTick inside I/O", m)
        /\ RowBefore("Promise.resolve inside I/O", m)
  /\ RowBefore("setImmediate inside I/O", "setTimeout inside I/O")

C21_Witness ==
  /\ loop.phase = "exit"
  /\ Len(rows) = 12
  /\ Row("setTimeout inside I/O") = 11
  /\ Row("fs.readFile callback") < Row("setTimeout callback")

\* ====================================================================
\* runFileSystemExamples (src/02_std_lib/file.js, lines 1-152)
\* ====================================================================
MaxEvents == 2

\* for (let i = 0; i < 100; i++) await writeHandle.write(dummyData), line 90
WriteCount == 100

\* the awaited operations of the try block before the watcher, in order
\* (lines 18, 30, 33, 37, 38, 43, 47, 89, 91, 93, 99, 112)
Steps ==
  <<"mkdir", "writeFile", "readFile", "appendFile", "readFile again", "rename",
    "rm", "open", "write", "close", "pipeline", "writeFile watch-me">>

\* lines 140-147: the outer catch prints the error, then the finally block
\* starts and calls fs.rm on the directory
CatchAndFinally ==
  <<"An error occurred in the main execution block:", "--- Cleaning up",
    "fs.rm(tempDir)">>
\* lines 146-147, entered without an error
Finally == <<"--- Cleaning up", "fs.rm(tempDir)">>

FsInit == Init /\ data = <<>>

\* lines 13-18: the function is called and awaits fs.mkdir
runFileSystemExamples ==
  /\ fsrun.pc = "start"
  /\ fsrun' = [fsrun EXCEPT !.pc = "await", !.i = 1]
  /\ UNCHANGED <<fsout, loop, rows, bars>>
  /\ UNCHANGED <<svars, cvars>>

\* the synchronous example, lines 58-72: it runs right after `await fs.rm`
\* (line 47) and catches its own error
SyncExample(ok) ==
  IF ok THEN <<"writeFileSync", "readFileSync", "unlinkSync">>
  ELSE <<"Error during synchronous operations:">>

\* the awaited operation settles: fulfilled, the function runs on to its
\* next await; rejected, control goes to the outer catch and the finally
stepSettles ==
  \E ok \in BOOLEAN, syncOk \in BOOLEAN :
    /\ fsrun.pc = "await"
    /\ LET step == Steps[fsrun.i]
           again == step = "write" /\ fsrun.w + 1 < WriteCount
           last == fsrun.i = Len(Steps)
       IN /\ step # "rm" => syncOk
          /\ ~ok => syncOk
          /\ IF ~ok
             THEN /\ fsrun' = [fsrun EXCEPT !.pc = "cleaning"]
                  /\ fsout' = fsout \o <<"throw">> \o CatchAndFinally
             ELSE /\ fsrun' = [fsrun EXCEPT
                        !.dir = IF step = "mkdir" THEN "present" ELSE @,
                        !.w = IF step = "write" THEN @ + 1 ELSE @,
                        !.i = IF again \/ last THEN @ ELSE @ + 1,
                        !.pc = IF last THEN "watching" ELSE @,
                        !.timer = IF last THEN "pending" ELSE @]
                  /\ fsout' = fsout
                        \o (IF again THEN <<>> ELSE <<step>>)
                        \o (IF step = "rm" THEN SyncExample(syncOk) ELSE <<>>)
                        \o (IF last THEN <<"setTimeout 20000", "fs.watch">> ELSE <<>>)
    /\ UNCHANGED <<loop, rows, bars>>
    /\ UNCHANGED <<svars, cvars>>

\* lines 126-128: the watcher yields an event and the loop body prints it
watchEvent ==
  /\ fsrun.pc = "watching"
  /\ fsrun.events < MaxEvents
  /\ fsrun' = [fsrun EXCEPT !.events = @ + 1]
  /\ fsout' = Append(fsout, "Detected event")
  /\ UNCHANGED <<loop, rows, bars>>
  /\ UNCHANGED <<svars, cvars>>

\* lines 119-122: the 20-second timer fires (the function is at an await or
\* has returned) and aborts the controller
watchTimeout ==
  /\ fsrun.timer = "pending"
  /\ fsrun.pc \in {"watching", "cleaning", "done"}
  /\ fsrun' = [fsrun EXCEPT !.timer = "fired", !.aborted = TRUE]
  /\ fsout' = Append(fsout, "Stopping watcher via AbortController.")
  /\ UNCHANGED <<loop, rows, bars>>
  /\ UNCHANGED <<svars, cvars>>

\* variant: the inner catch rethrows the AbortError as well
watcherAborted_rethrow ==
  /\ fsrun.pc = "watching"
  /\ fsrun.aborted
  /\ fsrun' = [fsrun EXCEPT !.pc = "cleaning"]
  /\ fsout' = fsout \o <<"AbortError">> \o CatchAndFinally
  /\ UNCHANGED <<loop, rows, bars>>
  /\ UNCHANGED <<svars, cvars>>

\* lines 126-147: the aborted watcher throws an AbortError into the loop;
\* the inner catch ignores it, clearTimeout finds the timer already fired,
\* and the finally block starts
watcherAborted ==
  /\ fsrun.pc = "watching"
  /\ fsrun.aborted
  /\ fsrun' = [fsrun EXCEPT !.pc = "cleaning"]
  /\ fsout' = fsout \o <<"AbortError", "clearTimeout">> \o Finally
  /\ UNCHANGED <<loop, rows, bars>>
  /\ UNCHANGED <<svars, cvars>>

\* lines 125-147: fs.watch or the watcher throws another error; the inner
\* catch rethrows it (clearTimeout on line 138 is skipped), the outer catch
\* prints it and the finally block starts
watcherFails ==
  /\ fsrun.pc = "watching"
  /\ ~fsrun.aborted
  /\ fsrun' = [fsrun EXCEPT !.pc = "cleaning"]
  /\ fsout' = fsout \o <<"watcher error", "rethrow">> \o CatchAndFinally
  /\ UNCHANGED <<loop, rows, bars>>
  /\ UNCHANGED <<svars, cvars>>

\* lines 147-149: the fs.rm of the finally block settles: fulfilled, the
\* directory is gone and the function returns; rejected, the promise of
\* runFileSystemExamples() rejects
cleanupSettles ==
  \E ok \in BOOLEAN :
    /\ fsrun.pc = "cleaning"
    /\ fsrun' = [fsrun EXCEPT !.pc = IF ok THEN "done" ELSE "rejected",
                               !.dir = IF ok THEN "absent" ELSE @]
    /\ fsout' = fsout \o (IF ok THEN <<"Removed temporary directory">>
                           ELSE <<"fs.rm rejected">>)
    /\ UNCHANGED <<loop, rows, bars>>
    /\ UNCHANGED <<svars, cvars>>

FsNext ==
  \/ runFileSystemExamples
  \/ stepSettles
  \/ watchEvent
  \/ watchTimeout
  \/ watcherAborted
  \/ watcherFails
  \/ cleanupSettles

FsSpec == FsInit /\ [][FsNext]_vars

\* every awaited operation settles and the 20-second timer fires
FairFsSpec ==
  /\ FsSpec
  /\ WF_vars(runFileSystemExamples) /\ WF_vars(stepSettles)
  /\ WF_vars(watchTimeout) /\ WF_vars(watcherAborted) /\ WF_vars(cleanupSettles)

\* ------------------------------------------------ what the run did
Did(x) == Len(SelectSeq(fsout, LAMBDA y : y = x))
\* every x in the output is directly followed by y
Next2(x, y) ==
  \A k \in 1..Len(fsout) : fsout[k] = x => k < Len(fsout) /\ fsout[k + 1] = y

OuterCatch == "An error occurred in the main execution block:"

Total1 == 200
Total2 == 500

\* bar.increment() of cli-progress: the value goes up by one (it is not
\* clamped to the total)
Increment(v) == v + 1

BarsInit == Init /\ data = <<>>

\* lines 41-65: the bars are made, task1() and task2() are called and each
\* runs up to its first `await sleep`; runExamples awaits Promise.all
startTasks ==
  /\ bars.pc = "start"
  /\ bars' = [bars EXCEPT !.pc = "running", !.task1 = "sleeping", !.task2 = "sleeping"]
  /\ UNCHANGED <<loop, rows, fsrun, fsout>>
  /\ UNCHANGED <<svars, cvars>>

\* lines 52-55: task1's sleep(20) is over: b1.increment(), i++, and the loop
\* goes on while i <= 200
task1Wakes ==
  /\ bars.task1 = "sleeping"
  /\ bars' = [bars EXCEPT !.b1 = Increment(@), !.i1 = @ + 1,
                           !.task1 = IF bars.i1 + 1 <= Total1 THEN "sleeping" ELSE "done"]
  /\ UNCHANGED <<loop, rows, fsrun, fsout>>
  /\ UNCHANGED <<svars, cvars>>

\* lines 59-62: task2's sleep(10) is over: b2.increment(), i++, and the loop
\* goes on while i <= 500
task2Wakes ==
  /\ bars.task2 = "sleeping"
  /\ bars' = [bars EXCEPT !.b2 = Increment(@), !.i2 = @ + 1,
                           !.task2 = IF bars.i2 + 1 <= Total2 THEN "sleeping" ELSE "done"]
  /\ UNCHANGED <<loop, rows, fsrun, fsout>>
  /\ UNCHANGED <<svars, cvars>>

\* lines 65-66: Promise.all resolves and multiBar.stop() is called
stopBars ==
  /\ bars.pc = "running"
  /\ bars.task1 = "done" /\ bars.task2 = "done"
  /\ bars' = [bars EXCEPT !.pc = "stopped"]
  /\ UNCHANGED <<loop, rows, fsrun, fsout>>
  /\ UNCHANGED <<svars, cvars>>

BarsNext ==
  \/ startTasks
  \/ task1Wakes
  \/ task2Wakes
  \/ stopBars

BarsSpec == BarsInit /\ [][BarsNext]_vars

\* C23: each bar's value never exceeds its total (200 for file1.zip, 500
\* for file2.img) and equals its total when Promise.all has resolved and
\* multiBar.stop() is called: each task increments its bar total times.
C23_BarsReachTotal ==
  /\ bars.b1 <= Total1
  /\ bars.b2 <= Total2
  /\ bars.pc = "stopped" => bars.b1 = Total1 /\ bars.b2 = Total2

\* ====================================================================
\* The worker script on its own (src/02_std_lib/os-demo.js, lines 337-367),
\* forked by a parent that may send it any message
\* ====================================================================
MaxSends == 3

\* messages a parent can send: the task, another task, an object (or a
\* string, number, boolean) without a task, and null
AnyMessages ==
  {Calculate, Msg(Undefined, "other"), Msg(Undefined, Undefined), NullMessage}

WorkerInit == Init /\ data = <<>>

\* a parent forks the worker script
workerForked ==
  /\ procs[WORKER].st = "none"
  /\ procs' = [procs EXCEPT ![WORKER] = [NoProcess EXCEPT !.st = "running",
                                                          !.at = "loaded"]]
  /\ hist' = Append(hist, H("start", WORKER))
  /\ UNCHANGED <<ppc, ipc, chunks, console>>
  /\ UNCHANGED svars
  /\ UNCHANGED xvars

\* the parent sends a message over the IPC channel
anyMessage ==
  \E m \in AnyMessages :
    /\ procs[WORKER].st = "running"
    /\ HTimes("post", WORKER) < MaxSends
    /\ ipc' = [ipc EXCEPT !.toWorker = Append(@, m)]
    /\ hist' = Append(hist, H("post", WORKER))
    /\ UNCHANGED <<ppc, procs, chunks, console>>
    /\ UNCHANGED svars
    /\ UNCHANGED xvars

WorkerNext ==
  \/ workerForked
  \/ anyMessage
  \/ workerRegisters
  \/ workerSendsReady
  \/ workerOnMessage

WorkerSpec == WorkerInit /\ [][WorkerNext]_vars

\* the k-th event of the history is the worker's handler taking a message
WorkerReceives(k) ==
  hist[k].e = "recv" /\ hist[k].c \in {"calculate", "other", Undefined, Null}
\* the k-th event is a reply of the worker
WorkerReplies(k) ==
  hist[k].e = "send" /\ hist[k].c \in {"calculationComplete", "error"}

====
